---------------------------- MODULE Spec2Model ----------------------------
(***************************************************************************)
(* NotScheme: code generator (src/src/codegen.py), module linker           *)
(* (src/src/ns.py) and stack virtual machine (src/src/vm.py).              *)
(*                                                                         *)
(* A behaviour of Spec is one run of the pipeline of the command line and  *)
(* of the test harness: compile_program_with_dependencies on a main file,  *)
(* then execute_bytecode on the linked image, then the end of the          *)
(* process.  The module files on disk are drawn in Init.                   *)
(***************************************************************************)
EXTENDS Integers, Sequences, FiniteSets, TLC

VARIABLES
    scenario,                               \* the program of this run: its family and parameters
    phase,                                  \* position in the pipeline
    module_own_bytecode_cache,              \* ns.py:22
    ordered_modules_for_linking,            \* ns.py:23
    shared_definitions_cache_for_codegen,   \* ns.py:24
    compilation_in_progress_stack,          \* ns.py:25
    compile_calls,                          \* active calls of compile_all_modules_recursively
    generators_created,                     \* history: the CodeGenerator objects constructed
    final_bytecode,                         \* ns.py:124
    code, labels,                           \* VirtualMachine.code / .labels
    operand_stack, call_stack, ip, env_chain,
    call_frames,                            \* history: each active CALL, the state it was made in, the frame it created
    frames,                                 \* the frame objects (dicts), by identity
    structs,                                \* the struct instances (dicts), by identity
    output,                                 \* the values PRINT wrote
    vm_status,                              \* how the dispatch loop was left
    last_instr,                             \* the instruction the last step executed
    result,                                 \* what run() returned
    exit_status                             \* the status the process ended with

vars == <<scenario, phase, module_own_bytecode_cache, ordered_modules_for_linking,
          shared_definitions_cache_for_codegen, compilation_in_progress_stack,
          compile_calls, generators_created, final_bytecode, code, labels,
          operand_stack, call_stack, call_frames, ip, env_chain, frames, structs,
          output, vm_status, last_instr, result, exit_status>>

linker_vars == <<module_own_bytecode_cache, ordered_modules_for_linking,
                 shared_definitions_cache_for_codegen, compilation_in_progress_stack,
                 compile_calls, generators_created, final_bytecode>>

vm_vars == <<code, labels, operand_stack, call_stack, call_frames, ip, env_chain, frames,
             structs, output, vm_status, last_instr, result>>

(***************************************************************************)
(* Bounds of the model.                                                    *)
(***************************************************************************)
MaxListLen == 3

(***************************************************************************)
(* Finite maps (Python dicts) and sequence helpers.                        *)
(***************************************************************************)
EmptyMap == [x \in {} |-> x]

Put(m, k, v) == [x \in (DOMAIN m) \cup {k} |-> IF x = k THEN v ELSE m[x]]

Range(s) == {s[i] : i \in DOMAIN s}

Last(s) == s[Len(s)]

Front(s) == SubSeq(s, 1, Len(s) - 1)

(***************************************************************************)
(* Runtime values: Python int, float, str, bool, None, list, QuotedSymbol, *)
(* Closure, struct instance (a dict with "__type__", held by reference)    *)
(* and the plain dict the constructor puts into the global frame.          *)
(* A float is kept as a reduced fraction <<numerator, denominator>>.       *)
(***************************************************************************)
IntV(n) == [t |-> "int", v |-> n]

FloatV(n, d) == [t |-> "float", v |-> <<n, d>>]

StrV(s) == [t |-> "str", v |-> s]

BoolV(b) == [t |-> "bool", v |-> b]

NilV == [t |-> "nil", v |-> 0]

ListV(s) == [t |-> "list", v |-> s]

DictV == [t |-> "dict", v |-> 0]

StructV(id) == [t |-> "struct", v |-> id]

(* A quoted symbol that would be the string of its name. *)
QuotedSymbolAsString(name) == [t |-> "str", v |-> name]

QuotedSymbol(name) == [t |-> "qsym", v |-> name]

Closure(code_label, defining_env) ==
    [t |-> "closure", code_label |-> code_label, defining_env |-> defining_env]

(* Python's truth value of an object: what `not x` and `if not x` test. *)
Truthy(x) ==
    CASE x.t = "bool" -> x.v
      [] x.t = "nil" -> FALSE
      [] x.t = "int" -> x.v # 0
      [] x.t = "float" -> x.v[1] # 0
      [] x.t = "str" -> x.v # ""
      [] x.t = "list" -> Len(x.v) > 0
      [] x.t = "dict" -> FALSE
      [] OTHER -> TRUE

IsNumeric(x) == x.t \in {"int", "float", "bool"}

(* The fraction a numeric value stands for. *)
Num(x) ==
    CASE x.t = "int" -> <<x.v, 1>>
      [] x.t = "bool" -> <<IF x.v THEN 1 ELSE 0, 1>>
      [] x.t = "float" -> x.v

Abs(n) == IF n < 0 THEN -n ELSE n

RECURSIVE Gcd(_, _)
Gcd(a, b) == IF b = 0 THEN a ELSE Gcd(b, a % b)

Reduce(n, d) ==
    LET g == Gcd(Abs(n), Abs(d))
        s == IF d < 0 THEN -1 ELSE 1
    IN  <<(s * n) \div g, (s * d) \div g>>

(* The result of an arithmetic operator on two numbers: a float as soon as
   one operand is a float, an int otherwise (bool counts as int). *)
NumResult(l, r, q) ==
    IF l.t = "float" \/ r.t = "float"
    THEN LET f == Reduce(q[1], q[2]) IN FloatV(f[1], f[2])
    ELSE IntV(q[1] \div q[2])

RECURSIVE PyEq(_, _)
(* Python's == on two runtime values.  Struct instances are compared by
   identity here; two distinct instances are compared field by field. *)
PyEq(a, b) ==
    CASE IsNumeric(a) /\ IsNumeric(b) -> Num(a)[1] * Num(b)[2] = Num(b)[1] * Num(a)[2]
      [] a.t = "list" /\ b.t = "list" ->
            /\ Len(a.v) = Len(b.v)
            /\ \A i \in 1..Len(a.v) : PyEq(a.v[i], b.v[i])
      [] a.t = "struct" /\ b.t = "struct" ->
            \/ a.v = b.v
            \/ /\ DOMAIN structs[a.v] = DOMAIN structs[b.v]
               /\ \A k \in DOMAIN structs[a.v] : PyEq(structs[a.v][k], structs[b.v][k])
      [] a.t = "closure" /\ b.t = "closure" ->
            a.code_label = b.code_label /\ a.defining_env = b.defining_env
      [] a.t # b.t -> FALSE
      [] OTHER -> a.v = b.v

(***************************************************************************)
(* Bytecode.  An instruction is the tuple (opcode, operands...); a label   *)
(* marker is the string "<label>:" in the same list.                       *)
(***************************************************************************)
Instr(op, args) == [op |-> op, args |-> args]

LabelMarker(label) == [op |-> "LABEL:", args |-> <<label>>]

IsLabelMarker(inst) == inst.op = "LABEL:"

(***************************************************************************)
(* AST nodes, as the parser hands them to the code generator (the fields   *)
(* the generator reads).  A SymbolNode that is only read through .name is  *)
(* kept as that name.  A module name is the sequence of the pieces of      *)
(* its text, the pieces ".ns", "/" and "\" standing alone, so that the     *)
(* generator's replace() calls can be computed.                            *)
(***************************************************************************)
NumberNode(value) == [k |-> "Number", value |-> value]

StringNode(value) == [k |-> "String", value |-> value]

BooleanNode(value) == [k |-> "Boolean", value |-> value]

NilNode == [k |-> "Nil"]

SymbolNode(name) == [k |-> "Symbol", name |-> name]

QuoteNode(expression) == [k |-> "Quote", expression |-> expression]

CallNode(callable_expr, arguments) ==
    [k |-> "Call", callable_expr |-> callable_expr, arguments |-> arguments]

IfNode(condition, then_branch, else_branch) ==
    [k |-> "If", condition |-> condition, then_branch |-> then_branch,
     else_branch |-> else_branch]

LetBinding(name, value) == [name |-> name, value |-> value]

LetNode(bindings, body) == [k |-> "Let", bindings |-> bindings, body |-> body]

LambdaNode(params, body) == [k |-> "Lambda", params |-> params, body |-> body]

GetNode(instance, field_name) ==
    [k |-> "Get", instance |-> instance, field_name |-> field_name]

SetNode(instance, field_name, value) ==
    [k |-> "Set", instance |-> instance, field_name |-> field_name, value |-> value]

WhileNode(condition, body) == [k |-> "While", condition |-> condition, body |-> body]

BeginNode(expressions) == [k |-> "Begin", expressions |-> expressions]

StaticNode(name, value) == [k |-> "Static", name |-> name, value |-> value]

FnNode(name, params, body) ==
    [k |-> "Fn", name |-> name, params |-> params, body |-> body]

StructDefNode(name, fields) == [k |-> "StructDef", name |-> name, fields |-> fields]

UseNode(module_name, items) ==
    [k |-> "Use", module_name |-> module_name, items |-> items]

(* Quoted data: a raw Python list, and an atom (int, float, str, bool, None). *)
DataList(items) == [k |-> "datalist", items |-> items]

Atom(value) == [k |-> "atom", value |-> value]

(* The items of a use form: the symbol * or a list of symbols. *)
ItemList(names) == [k |-> "itemlist", names |-> names]

ExpressionKinds ==
    {"Number", "String", "Boolean", "Nil", "Symbol", "Quote", "Call", "If", "Let",
     "Lambda", "Get", "Set", "While", "Begin"}

(* A module name is the sequence of the pieces of its text.  Its label
   prefix is the text with ".ns" removed and "/" and "\" replaced by "_". *)
RECURSIVE SanitizePieces(_)
SanitizePieces(pieces) ==
    IF pieces = <<>> THEN ""
    ELSE (CASE Head(pieces) = ".ns" -> ""
            [] Head(pieces) \in {"/", "\\"} -> "_"
            [] OTHER -> Head(pieces)) \o SanitizePieces(Tail(pieces))

(***************************************************************************)
(* The programs of the runs.  scenario names a family and its parameters;  *)
(* FilesOf gives the parsed module files on disk, the main file being      *)
(* main.ns.                                                                *)
(***************************************************************************)
Sym(name) == SymbolNode(name)

IntLit(n) == NumberNode(IntV(n))

Call(op_name, arguments) == CallNode(SymbolNode(op_name), arguments)

Main == <<"main">>

SingleFile(program) == [m \in {Main} |-> program]

(* Literals and the values they evaluate to. *)
TestValues ==
    << [expr |-> BooleanNode(FALSE), value |-> BoolV(FALSE)],
       [expr |-> NilNode, value |-> NilV],
       [expr |-> IntLit(0), value |-> IntV(0)],
       [expr |-> NumberNode(FloatV(0, 1)), value |-> FloatV(0, 1)],
       [expr |-> StringNode(""), value |-> StrV("")],
       [expr |-> Call("list", <<>>), value |-> ListV(<<>>)],
       [expr |-> BooleanNode(TRUE), value |-> BoolV(TRUE)],
       [expr |-> IntLit(1), value |-> IntV(1)],
       [expr |-> StringNode("a"), value |-> StrV("a")],
       [expr |-> QuoteNode(Sym("a")), value |-> QuotedSymbol("a")],
       [expr |-> Call("list", <<IntLit(1)>>), value |-> ListV(<<IntV(1)>>)] >>

(* (if V 1 2) *)
IfProgram(v) == << IfNode(TestValues[v].expr, IntLit(1), IntLit(2)) >>

(* A loop whose condition is V at first and false after one pass:
   (struct C (v)) (static c (C V)) (static r (C 0))
   (while (get c v) (set r v 1) (set c v false)) (get r v) *)
WhileProgram(v) ==
    << StructDefNode("C", <<"v">>),
       StaticNode("c", Call("C", <<TestValues[v].expr>>)),
       StaticNode("r", Call("C", <<IntLit(0)>>)),
       WhileNode(GetNode(Sym("c"), "v"),
                 << SetNode(Sym("r"), "v", IntLit(1)),
                    SetNode(Sym("c"), "v", BooleanNode(FALSE)) >>),
       GetNode(Sym("r"), "v") >>

(* A let of x, then x again, at top level or inside a function body, x
   being unbound or bound to 1 outside the let:
   [(static x 1)] (let ((x 2)) x) x
   (fn f ([x]) (let ((x 2)) x) x) (f [1]) *)
LetScopeProgram(place, outer) ==
    LET let_x == LetNode(<<LetBinding("x", IntLit(2))>>, <<Sym("x")>>) IN
    IF place = "top"
    THEN (IF outer = "bound" THEN <<StaticNode("x", IntLit(1))>> ELSE <<>>)
         \o <<let_x, Sym("x")>>
    ELSE << FnNode("f", IF outer = "bound" THEN <<"x">> ELSE <<>>, <<let_x, Sym("x")>>),
            Call("f", IF outer = "bound" THEN <<IntLit(1)>> ELSE <<>>) >>

(* A closure made in a let body and called after the let:
   "once"   (static f (let ((x 1)) (lambda () x))) (f)
   "in_fn"  (fn mk () (let ((x 1)) (lambda () x))) (static f (mk)) (f)
   "twice"  (static f (let ((x 1)) (lambda () x)))
            (static g (let ((x 2)) (lambda () x))) (f)
   "calls"  (fn mk (v) (let ((x v)) (lambda () x)))
            (static f (mk 1)) (static g (mk 2)) (f) *)
LetClosureProgram(kind) ==
    LET closure_of(value) ==
            LetNode(<<LetBinding("x", value)>>, <<LambdaNode(<<>>, <<Sym("x")>>)>>)
        call_f == CallNode(Sym("f"), <<>>)
    IN
    CASE kind = "once" -> << StaticNode("f", closure_of(IntLit(1))), call_f >>
      [] kind = "in_fn" ->
            << FnNode("mk", <<>>, <<closure_of(IntLit(1))>>),
               StaticNode("f", Call("mk", <<>>)), call_f >>
      [] kind = "twice" ->
            << StaticNode("f", closure_of(IntLit(1))),
               StaticNode("g", closure_of(IntLit(2))), call_f >>
      [] kind = "calls" ->
            << FnNode("mk", <<"v">>, <<closure_of(Sym("v"))>>),
               StaticNode("f", Call("mk", <<IntLit(1)>>)),
               StaticNode("g", Call("mk", <<IntLit(2)>>)), call_f >>

(* One instance reached through two names, set through one and read
   through the other:
   "statics" (struct P (x)) (static a (P 1)) (static b a) (set a x W) (get b x)
   "closure" (struct P (x)) (fn mk (p) (lambda () (get p x)))
             (static a (P 1)) (static f (mk a)) (set a x W) (f)
   "list"    (struct P (x)) (static a (P 1)) (static l (list 0 a))
             (set (first (rest l)) x W) (get a x) *)
AliasProgram(kind, w) ==
    LET head == << StructDefNode("P", <<"x">>) >>
        a == StaticNode("a", Call("P", <<IntLit(1)>>))
        set_through(instance) == SetNode(instance, "x", TestValues[w].expr)
    IN
    CASE kind = "statics" ->
            head \o << a, StaticNode("b", Sym("a")), set_through(Sym("a")),
                       GetNode(Sym("b"), "x") >>
      [] kind = "closure" ->
            head \o << FnNode("mk", <<"p">>,
                              <<LambdaNode(<<>>, <<GetNode(Sym("p"), "x")>>)>>),
                       a, StaticNode("f", Call("mk", <<Sym("a")>>)),
                       set_through(Sym("a")), CallNode(Sym("f"), <<>>) >>
      [] kind = "list" ->
            head \o << a, StaticNode("l", Call("list", <<IntLit(0), Sym("a")>>)),
                       set_through(Call("first", <<Call("rest", <<Sym("l")>>)>>)),
                       GetNode(Sym("a"), "x") >>

(* The elements of the lists of the round trip: (list e1 .. en). *)
ListElements == {7, 8, 9, 10}

ElementExpr(e) ==
    CASE e = 7 -> IntLit(7)
      [] e = 8 -> StringNode("b")
      [] e = 9 -> NilNode
      [] OTHER -> Call("list", <<IntLit(1), IntLit(2)>>)

ElementValue(e) ==
    CASE e = 7 -> IntV(7)
      [] e = 8 -> StrV("b")
      [] e = 9 -> NilV
      [] OTHER -> ListV(<<IntV(1), IntV(2)>>)

(* (static l (list e1 .. en)) (cons (first l) (rest l)) *)
RoundTripProgram(elements) ==
    << StaticNode("l", Call("list", [i \in DOMAIN elements |-> ElementExpr(elements[i])])),
       Call("cons", << Call("first", <<Sym("l")>>), Call("rest", <<Sym("l")>>) >>) >>

(* The programs of test_language.py without modules, and one program
   for the remaining primitives. *)
TestProgram(test_name) ==
    CASE test_name = "Static Vars" ->
            << StaticNode("a", IntLit(10)),
               StaticNode("b", Call("+", <<Sym("a"), IntLit(5)>>)), Sym("b") >>
      [] test_name = "Function Def & Call" ->
            << FnNode("add", <<"x", "y">>, <<Call("+", <<Sym("x"), Sym("y")>>)>>),
               StaticNode("r", Call("add", <<IntLit(10), IntLit(20)>>)), Sym("r") >>
      [] test_name = "Print Test" ->
            << Call("print", <<StringNode("Hello")>>), Call("print", <<IntLit(123)>>),
               Call("print", <<BooleanNode(TRUE)>>), Call("print", <<NilNode>>),
               Call("+", <<IntLit(1), IntLit(1)>>) >>
      [] test_name = "List Operations Test" ->
            << StaticNode("my_list",
                          Call("list", <<IntLit(1), Call("+", <<IntLit(1), IntLit(1)>>),
                                         StringNode("three")>>)),
               Call("print", <<Call("first", <<Sym("my_list")>>)>>),
               Call("print", <<Call("rest", <<Sym("my_list")>>)>>),
               StaticNode("my_list2", Call("cons", <<IntLit(0), Sym("my_list")>>)),
               Call("print", <<Sym("my_list2")>>),
               Call("print", <<Call("is_nil", <<NilNode>>)>>),
               Call("print", <<Call("is_nil", <<Sym("my_list2")>>)>>),
               Call("first", <<Call("list", <<StringNode("final")>>)>>) >>
      [] test_name = "Quote: Simple Symbol" ->
            << Call("print", <<QuoteNode(Sym("my_symbol"))>>) >>
      [] test_name = "Quote: Simple List" ->
            << Call("print",
                    <<QuoteNode(DataList(<<Sym("item1"), Atom(IntV(10)),
                                           Atom(BoolV(TRUE)), Atom(NilV)>>))>>) >>
      [] test_name = "Primitives" ->
            << Call("print", <<Call("/", <<IntLit(7), IntLit(2)>>)>>),
               Call("print", <<Call("*", <<IntLit(2), Call("-", <<IntLit(5), IntLit(2)>>)>>)>>),
               Call("print", <<Call("not", <<IntLit(0)>>)>>),
               Call("print", <<Call(">", <<IntLit(2), IntLit(1)>>)>>),
               Call("print", <<Call("=", <<StringNode("a"), IntLit(1)>>)>>),
               Call("print", <<Call("is_number", <<BooleanNode(TRUE)>>)>>),
               Call("print", <<Call("is_list", <<NilNode>>)>>),
               BeginNode(<<IntLit(1), Call("<", <<IntLit(1), IntLit(1)>>)>>) >>
      [] test_name = "Wrong Arity" ->
            << Call("+", <<IntLit(1)>>) >>

TestNames ==
    {"Static Vars", "Function Def & Call", "Print Test", "List Operations Test",
     "Quote: Simple Symbol", "Quote: Simple List", "Primitives", "Wrong Arity"}

Names(names) == ItemList([i \in DOMAIN names |-> Sym(names[i])])

(* math_utils.ns and string_ext.ns of test_language.py. *)
MathUtils ==
    << StructDefNode("Vec2", <<"x", "y">>),
       StaticNode("gravity", NumberNode(FloatV(49, 5))),
       FnNode("square", <<"val">>, <<Call("*", <<Sym("val"), Sym("val")>>)>>),
       FnNode("add_vec", <<"v1", "v2">>,
              << Call("Vec2",
                      << Call("+", <<GetNode(Sym("v1"), "x"), GetNode(Sym("v2"), "x")>>),
                         Call("+", <<GetNode(Sym("v1"), "y"), GetNode(Sym("v2"), "y")>>) >>) >>) >>

StringExt ==
    << StaticNode("greeting", StringNode("Hello from string_ext module")),
       FnNode("get_greeting", <<>>, <<Sym("greeting")>>) >>

(* The files of the module tests of test_language.py. *)
ModuleTestFiles(test_name) ==
    CASE test_name = "Module: Use Specific Items" ->
            [m \in {Main, <<"math_utils">>} |->
                IF m = Main
                THEN << UseNode(<<"math_utils">>,
                                Names(<<"gravity", "square", "Vec2", "add_vec">>)),
                        StaticNode("my_g", Sym("gravity")),
                        StaticNode("nine", Call("square", <<IntLit(3)>>)),
                        StaticNode("v1", Call("Vec2", <<IntLit(1), IntLit(2)>>)),
                        StaticNode("v2", Call("Vec2", <<IntLit(3), IntLit(4)>>)),
                        StaticNode("v_sum", Call("add_vec", <<Sym("v1"), Sym("v2")>>)),
                        GetNode(Sym("v_sum"), "x") >>
                ELSE MathUtils]
      [] test_name = "Module: Use All Items (*)" ->
            [m \in {Main, <<"string_ext">>, <<"math_utils">>} |->
                CASE m = Main ->
                        << UseNode(<<"string_ext">>, Sym("*")),
                           UseNode(<<"math_utils">>, Names(<<"square", "Vec2">>)),
                           Call("print", <<Sym("greeting")>>),
                           Call("print",
                                <<Call("square",
                                       <<GetNode(Call("Vec2", <<IntLit(3), IntLit(0)>>),
                                                 "x")>>)>>),
                           CallNode(Sym("get_greeting"), <<>>) >>
                  [] m = <<"string_ext">> -> StringExt
                  [] OTHER -> MathUtils]
      [] test_name = "Module: Circular Use for Definitions" ->
            [m \in {Main, <<"module_a">>, <<"module_b">>} |->
                CASE m = Main ->
                        << UseNode(<<"module_a">>, Names(<<"call_b_from_a", "get_a">>)),
                           UseNode(<<"module_b">>, Names(<<"get_b_direct">>)),
                           CallNode(Sym("call_b_from_a"), <<>>) >>
                  [] m = <<"module_a">> ->
                        << UseNode(<<"module_b">>, Names(<<"b_val", "get_b_internal">>)),
                           StaticNode("a_val", IntLit(10)),
                           FnNode("get_a", <<>>, <<Sym("a_val")>>),
                           FnNode("call_b_from_a", <<>>,
                                  <<CallNode(Sym("get_b_internal"), <<>>)>>) >>
                  [] OTHER ->
                        << UseNode(<<"module_a">>, Names(<<"a_val">>)),
                           StaticNode("b_val", Call("+", <<Sym("a_val"), IntLit(20)>>)),
                           FnNode("get_b_internal", <<>>, <<Sym("b_val")>>),
                           FnNode("get_b_direct", <<>>, <<Sym("b_val")>>) >>]

ModuleTestNames ==
    {"Module: Use Specific Items", "Module: Use All Items (*)",
     "Module: Circular Use for Definitions"}

(* Two modules beside main, each with one labelled construct:
   "fn_and_while"  m.ns: (fn while_start () 1)
                   m_m_fn.ns: (static z 1) (while false 1)
   "subdirectory"  a/b.ns: (fn f () 1)      a_b.ns: (fn f () 2)
   "same_function" m1.ns: (fn f () 1)       m2.ns: (fn f () 2)
   main.ns: (use <first> (..)) (use <second> (..)) 1 *)
LabelFiles(kind) ==
    LET first == CASE kind = "fn_and_while" -> <<"m">>
                   [] kind = "subdirectory" -> <<"a", "/", "b">>
                   [] OTHER -> <<"m1">>
        second == CASE kind = "fn_and_while" -> <<"m_m_fn">>
                    [] kind = "subdirectory" -> <<"a_b">>
                    [] OTHER -> <<"m2">>
    IN  [m \in {Main, first, second} |->
            CASE m = Main ->
                    << UseNode(first, Sym("*")), UseNode(second, Sym("*")), IntLit(1) >>
              [] m = first ->
                    << FnNode(IF kind = "fn_and_while" THEN "while_start" ELSE "f",
                              <<>>, <<IntLit(1)>>) >>
              [] OTHER ->
                    IF kind = "fn_and_while"
                    THEN << StaticNode("z", IntLit(1)),
                            WhileNode(BooleanNode(FALSE), <<IntLit(1)>>) >>
                    ELSE << FnNode("f", <<>>, <<IntLit(2)>>) >>]

LabelKinds == {"fn_and_while", "subdirectory", "same_function"}

(* A module m all of whose names are imported, [use m all] standing for
   the use form with the wildcard:
   "first_use"    main.ns: [use m all] bar
   "second_use"   main.ns: (use x (foo)) [use m all] bar
                  x.ns: (use m (bar)) (static foo 1)
   m.ns: (static bar 2) (struct S (x)) (fn h () bar) *)
UseAllFiles(kind) ==
    LET m_program == << StaticNode("bar", IntLit(2)), StructDefNode("S", <<"x">>),
                        FnNode("h", <<>>, <<Sym("bar")>>) >>
        x_program == << UseNode(<<"m">>, Names(<<"bar">>)), StaticNode("foo", IntLit(1)) >>
    IN  IF kind = "first_use"
        THEN [m \in {Main, <<"m">>} |->
                 IF m = Main THEN << UseNode(<<"m">>, Sym("*")), Sym("bar") >>
                 ELSE m_program]
        ELSE [m \in {Main, <<"x">>, <<"m">>} |->
                 CASE m = Main ->
                         << UseNode(<<"x">>, Names(<<"foo">>)), UseNode(<<"m">>, Sym("*")),
                            Sym("bar") >>
                   [] m = <<"x">> -> x_program
                   [] OTHER -> m_program]

UseAllKinds == {"first_use", "second_use"}

(* A struct type declared in s.ns, imported and constructed elsewhere:
   "in_main"        main.ns: (use s (Vec2)) (get (Vec2 1 2) y)
   "in_dependency"  main.ns: (use a (mk)) (get (mk) y)
                    a.ns: (use s (Vec2)) (fn mk () (Vec2 1 2))
   "after_summary"  main.ns: (use a (mk)) (use s (Vec2)) (get (Vec2 1 2) y)
                    a.ns as above
   "wrong_count"    main.ns: (use s (Vec2)) (Vec2 1)
   s.ns: (struct Vec2 (x y)) *)
StructImportFiles(kind) ==
    LET s_program == << StructDefNode("Vec2", <<"x", "y">>) >>
        use_s == UseNode(<<"s">>, Names(<<"Vec2">>))
        make == Call("Vec2", <<IntLit(1), IntLit(2)>>)
        a_program == << use_s, FnNode("mk", <<>>, <<make>>) >>
        use_a == UseNode(<<"a">>, Names(<<"mk">>))
        main_program ==
            CASE kind = "in_main" -> << use_s, GetNode(make, "y") >>
              [] kind = "in_dependency" -> << use_a, GetNode(CallNode(Sym("mk"), <<>>), "y") >>
              [] kind = "after_summary" -> << use_a, use_s, GetNode(make, "y") >>
              [] OTHER -> << use_s, Call("Vec2", <<IntLit(1)>>) >>
    IN  IF kind \in {"in_main", "wrong_count"}
        THEN [m \in {Main, <<"s">>} |-> IF m = Main THEN main_program ELSE s_program]
        ELSE [m \in {Main, <<"a">>, <<"s">>} |->
                 CASE m = Main -> main_program
                   [] m = <<"a">> -> a_program
                   [] OTHER -> s_program]

StructImportKinds == {"in_main", "in_dependency", "after_summary", "wrong_count"}

(* A struct name given field lists twice, S1 being (struct S (a)) and S2
   (struct S (b c)):
   "local_differs"   main.ns: S1 S2 1
   "local_same"      main.ns: S1 S1 1
   "import_local"    main.ns: (use m1 (S)) S2 1
   "import_differs"  main.ns: (use m1 (S)) (use m2 (S)) (get (S 1 2) c)
   "import_same"     main.ns: (use m1 (S)) (use m3 (S)) (get (S 1) a)
   m1.ns: S1      m2.ns: S2      m3.ns: S1 *)
StructClashKinds ==
    {"local_differs", "local_same", "import_local", "import_differs", "import_same"}

StructClashFiles(kind) ==
    LET S1 == StructDefNode("S", <<"a">>)
        S2 == StructDefNode("S", <<"b", "c">>)
        use(m) == UseNode(<<m>>, Names(<<"S">>))
    IN  [m \in {Main, <<"m1">>, <<"m2">>, <<"m3">>} |->
            CASE m = <<"m1">> -> << S1 >>
              [] m = <<"m2">> -> << S2 >>
              [] m = <<"m3">> -> << S1 >>
              [] OTHER ->
                    CASE kind = "local_differs" -> << S1, S2, IntLit(1) >>
                      [] kind = "local_same" -> << S1, S1, IntLit(1) >>
                      [] kind = "import_local" -> << use("m1"), S2, IntLit(1) >>
                      [] kind = "import_differs" ->
                            << use("m1"), use("m2"),
                               GetNode(Call("S", <<IntLit(1), IntLit(2)>>), "c") >>
                      [] OTHER ->
                            << use("m1"), use("m3"), GetNode(Call("S", <<IntLit(1)>>), "a") >>]

(* Acyclic module graphs: module 0 is main.ns, module i is m<i>.ns, and
   module i uses a set of modules with larger numbers.  uses[i + 1] is the
   set of module i.
   m<i>.ns: (use m<j> (v<j>)) for each j it uses, then (static v<i> i) *)
MaxDagModules == 3

RECURSIVE DagGraphs(_)
DagGraphs(i) ==
    IF i > MaxDagModules THEN {<<>>}
    ELSE {<<used>> \o rest : used \in SUBSET ((i + 1)..MaxDagModules),
                             rest \in DagGraphs(i + 1)}

DagModule(i) == IF i = 0 THEN Main ELSE <<"m" \o ToString(i)>>

RECURSIVE DagUses(_, _)
DagUses(used, j) ==
    IF j > MaxDagModules THEN <<>>
    ELSE (IF j \in used
          THEN <<UseNode(DagModule(j), Names(<<"v" \o ToString(j)>>))>>
          ELSE <<>>) \o DagUses(used, j + 1)

DagFiles(uses) ==
    [m \in {DagModule(i) : i \in 0..MaxDagModules} |->
        LET i == CHOOSE i \in 0..MaxDagModules : DagModule(i) = m
        IN  DagUses(uses[i + 1], 1) \o <<StaticNode("v" \o ToString(i), IntLit(i))>>]

(* A use of a module that has no file: main.ns: (use nowhere (x)) 1 *)
MissingFiles == [m \in {Main} |-> << UseNode(<<"nowhere">>, Names(<<"x">>)), IntLit(1) >>]

(* An expression form of each kind in front of the last form:
   (struct P (x)) (static s (P 1)) (fn f () 1) E 99 *)
DiscardedKinds ==
    {"literal", "symbol", "call", "print", "if", "let", "lambda", "while", "begin",
     "get", "set", "quote"}

DiscardedExpr(kind) ==
    CASE kind = "literal" -> IntLit(5)
      [] kind = "symbol" -> Sym("s")
      [] kind = "call" -> CallNode(Sym("f"), <<>>)
      [] kind = "print" -> Call("print", <<IntLit(1)>>)
      [] kind = "if" -> IfNode(BooleanNode(TRUE), IntLit(1), IntLit(2))
      [] kind = "let" -> LetNode(<<LetBinding("y", IntLit(1))>>, <<Sym("y")>>)
      [] kind = "lambda" -> LambdaNode(<<>>, <<IntLit(1)>>)
      [] kind = "while" -> WhileNode(BooleanNode(FALSE), <<IntLit(1)>>)
      [] kind = "begin" -> BeginNode(<<IntLit(1), IntLit(2)>>)
      [] kind = "get" -> GetNode(Sym("s"), "x")
      [] kind = "set" -> SetNode(Sym("s"), "x", IntLit(2))
      [] OTHER -> QuoteNode(Sym("a"))

DiscardProgram(kind) ==
    << StructDefNode("P", <<"x">>), StaticNode("s", Call("P", <<IntLit(1)>>)),
       FnNode("f", <<>>, <<IntLit(1)>>), DiscardedExpr(kind), IntLit(99) >>

(* The recursive Fibonacci program of test_speed.py, for an argument up
   to MaxFibArg:
   (fn fib (n) (if (< n 2) n (+ (fib (- n 1)) (fib (- n 2))))) (fib N) *)
MaxFibArg == 10

FibProgram(n) ==
    LET fib_of(k) == Call("fib", <<Call("-", <<Sym("n"), IntLit(k)>>)>>) IN
    << FnNode("fib", <<"n">>,
              << IfNode(Call("<", <<Sym("n"), IntLit(2)>>), Sym("n"),
                        Call("+", <<fib_of(1), fib_of(2)>>)) >>),
       Call("fib", <<IntLit(n)>>) >>

RECURSIVE py_fib(_)
(* The reference the speed test compares the result with. *)
py_fib(n) == IF n < 2 THEN n ELSE py_fib(n - 1) + py_fib(n - 2)

(* A program whose form E raises a runtime error, between forms with
   effects:
   (struct P (x)) (static p (P 1)) (fn f (a) a)
   (print 1) E (print 2) (set p x 2) (static z 3)
   "underflow"         (f)          the body's STORE finds no argument
   "undefined_name"    nope
   "type_mismatch"     (+ 1 "a")
   "division_by_zero"  (/ 1 0)
   "missing_field"     (get p y)
   "bad_call_target"   (1) *)
ErrorKinds ==
    {"underflow", "undefined_name", "type_mismatch", "division_by_zero",
     "missing_field", "bad_call_target"}

RaisingExpr(kind) ==
    CASE kind = "underflow" -> CallNode(Sym("f"), <<>>)
      [] kind = "undefined_name" -> Sym("nope")
      [] kind = "type_mismatch" -> Call("+", <<IntLit(1), StringNode("a")>>)
      [] kind = "division_by_zero" -> Call("/", <<IntLit(1), IntLit(0)>>)
      [] kind = "missing_field" -> GetNode(Sym("p"), "y")
      [] OTHER -> CallNode(IntLit(1), <<>>)

(* The exception and the instruction that raises it. *)
RaisedBy(kind) ==
    CASE kind = "underflow" -> [exception |-> "IndexError", op |-> "STORE"]
      [] kind = "undefined_name" -> [exception |-> "NameError", op |-> "LOAD"]
      [] kind = "type_mismatch" -> [exception |-> "TypeError", op |-> "ADD"]
      [] kind = "division_by_zero" -> [exception |-> "ZeroDivisionError", op |-> "DIV"]
      [] kind = "missing_field" -> [exception |-> "AttributeError", op |-> "GET_FIELD"]
      [] OTHER -> [exception |-> "TypeError", op |-> "CALL"]

ErrorProgram(kind) ==
    << StructDefNode("P", <<"x">>), StaticNode("p", Call("P", <<IntLit(1)>>)),
       FnNode("f", <<"a">>, <<Sym("a")>>),
       Call("print", <<IntLit(1)>>), RaisingExpr(kind), Call("print", <<IntLit(2)>>),
       SetNode(Sym("p"), "x", IntLit(2)), StaticNode("z", IntLit(3)) >>

(* Bytecode written by hand and given to execute_bytecode without a
   compilation, as in the self-test of vm.py:
   "halt_midway"     PUSH 1; HALT; PUSH 2; PRINT; PUSH 3
   "halt_empty"      HALT; PUSH 2
   "halt_in_call"    MAKE_CLOSURE f; CALL 0; PUSH 9; HALT; f: PUSH 5; HALT; RETURN
   "unknown_opcode"  PUSH 1; NOP; PUSH 2; PRINT
   "no_halt"         PUSH 1; PUSH 2
   "label_at_end"    MAKE_CLOSURE f; CALL 0; JUMP end; PUSH 9;
                     f: PUSH false; JUMP_IF_FALSE r; PUSH 2; r: RETURN; end: *)
GivenKinds ==
    {"halt_midway", "halt_empty", "halt_in_call", "unknown_opcode", "no_halt", "label_at_end"}

GivenBytecode(kind) ==
    LET push(n) == Instr("PUSH", <<IntV(n)>>)
        halt == Instr("HALT", <<>>)
    IN
    CASE kind = "halt_midway" -> << push(1), halt, push(2), Instr("PRINT", <<>>), push(3) >>
      [] kind = "halt_empty" -> << halt, push(2) >>
      [] kind = "halt_in_call" ->
            << Instr("MAKE_CLOSURE", <<"f">>), Instr("CALL", <<0>>), push(9), halt,
               LabelMarker("f"), push(5), halt, Instr("RETURN", <<>>) >>
      [] kind = "unknown_opcode" ->
            << push(1), Instr("NOP", <<>>), push(2), Instr("PRINT", <<>>) >>
      [] kind = "label_at_end" ->
            << Instr("MAKE_CLOSURE", <<"f">>), Instr("CALL", <<0>>), Instr("JUMP", <<"end">>),
               push(9), LabelMarker("f"), Instr("PUSH", <<BoolV(FALSE)>>),
               Instr("JUMP_IF_FALSE", <<"r">>), push(2), LabelMarker("r"),
               Instr("RETURN", <<>>), LabelMarker("end") >>
      [] OTHER -> << push(1), push(2) >>

(* A use form that the generator meets twice:
   "repeated"   main.ns: (use m (x S)) (use m (x S)) x
   "redefined"  main.ns: (use m (x S)) (fn x () 2) (x)
   "once"       main.ns: (use m (x S)) x
   m.ns: (use k (y)) (static x 1) (struct S (a))      k.ns: (static y 3)
   ("redefined" has m.ns without its use form) *)
UseTwiceKinds == {"repeated", "redefined", "once"}

UseTwiceMain(kind) ==
    LET use_m == UseNode(<<"m">>, Names(<<"x", "S">>)) IN
    CASE kind = "repeated" -> << use_m, use_m, Sym("x") >>
      [] kind = "redefined" ->
            << use_m, FnNode("x", <<>>, <<IntLit(2)>>), CallNode(Sym("x"), <<>>) >>
      [] OTHER -> << use_m, Sym("x") >>

UseTwiceFiles(kind) ==
    [m \in {Main, <<"m">>, <<"k">>} |->
        CASE m = Main -> UseTwiceMain(kind)
          [] m = <<"m">> ->
                (IF kind = "redefined" THEN <<>>
                 ELSE << UseNode(<<"k">>, Names(<<"y">>)) >>)
                \o << StaticNode("x", IntLit(1)), StructDefNode("S", <<"a">>) >>
          [] OTHER -> << StaticNode("y", IntLit(3)) >>]

(* Quoted symbols under is_string and =, for names a and b of SymbolNames:
   "is_string"        (is_string 'a)
   "eq_string"        (= 'a "b")
   "eq_string_left"   (= "a" 'b)
   "eq_symbol"        (= 'a 'b) *)
SymbolNames == {"a", "b", "ab"}

QuoteKinds == {"is_string", "eq_string", "eq_string_left", "eq_symbol"}

QuoteProgram(kind, a, b) ==
    CASE kind = "is_string" -> << Call("is_string", <<QuoteNode(Sym(a))>>) >>
      [] kind = "eq_string" -> << Call("=", <<QuoteNode(Sym(a)), StringNode(b)>>) >>
      [] kind = "eq_string_left" -> << Call("=", <<StringNode(a), QuoteNode(Sym(b))>>) >>
      [] OTHER -> << Call("=", <<QuoteNode(Sym(a)), QuoteNode(Sym(b))>>) >>

(* A print of n arguments, n up to MaxPrintArgs, the i-th of which writes
   a line of its own when it is evaluated:
   (print (begin (print "e1") 1) .. (begin (print "en") n)) *)
MaxPrintArgs == 3

PrintArgument(i) ==
    BeginNode(<< Call("print", <<StringNode("e" \o ToString(i))>>), IntLit(i) >>)

PrintProgram(n) == << Call("print", [i \in 1..n |-> PrintArgument(i)]) >>

(* A general call with n arguments, n up to MaxParams, of a function
   with n parameters; the callee expression and every argument write a
   line when they are evaluated:
   (fn f (p1 .. pn) (list p1 .. pn))
   ((begin (print "f") f) (begin (print 1) 10) .. (begin (print n) 10n)),
   10n being the number ten times n *)
MaxParams == 3

ParamName(i) == "p" \o ToString(i)

CallProgram(n) ==
    << FnNode("f", [i \in 1..n |-> ParamName(i)],
              << Call("list", [i \in 1..n |-> Sym(ParamName(i))]) >>),
       CallNode(BeginNode(<< Call("print", <<StringNode("f")>>), Sym("f") >>),
                [i \in 1..n |->
                    BeginNode(<< Call("print", <<IntLit(i)>>), IntLit(10 * i) >>)]) >>

(* A general call with m arguments of a function with n parameters, m and
   n up to MaxParams, made with two values on the operand stack below the
   arguments:
   (fn f (p1 .. pn) 0) (list 7 "s" (f 10 .. 10m)) *)
ArityProgram(n, m) ==
    << FnNode("f", [i \in 1..n |-> ParamName(i)], <<IntLit(0)>>),
       Call("list", << IntLit(7), StringNode("s"),
                       Call("f", [i \in 1..m |-> IntLit(10 * i)]) >>) >>

(* A get or a set, with a field name of the type, a name that is not one
   and the name __type__, of an instance of a type with the one field a:
   (struct P (a)) (static p (P 1)) (get p F)     or  (set p F "Q") *)
TagFieldNames == {"a", "b", "__type__"}

TagProgram(op, field_name) ==
    << StructDefNode("P", <<"a">>),
       StaticNode("p", Call("P", <<IntLit(1)>>)),
       IF op = "get" THEN GetNode(Sym("p"), field_name)
       ELSE SetNode(Sym("p"), field_name, StringNode("Q")),
       Call("is_struct", <<Sym("p")>>) >>

(* An instruction that aborts on an operand of the wrong kind, with two
   values on the operand stack below its operands; operands are the values
   the instruction finds on the stack, the deepest first:
   (struct P (a)) (static p (P 1)) (static l (list 1 2)) (list 7 "s" E) *)
AbortCases ==
    << [expr |-> GetNode(IntLit(5), "a"), op |-> "GET_FIELD", operands |-> <<IntV(5)>>],
       [expr |-> GetNode(Sym("l"), "a"), op |-> "GET_FIELD",
        operands |-> <<ListV(<<IntV(1), IntV(2)>>)>>],
       [expr |-> GetNode(Sym("p"), "b"), op |-> "GET_FIELD", operands |-> <<StructV(1)>>],
       [expr |-> SetNode(IntLit(5), "a", IntLit(6)), op |-> "SET_FIELD",
        operands |-> <<IntV(5), IntV(6)>>],
       [expr |-> SetNode(Sym("p"), "b", IntLit(6)), op |-> "SET_FIELD",
        operands |-> <<StructV(1), IntV(6)>>],
       [expr |-> Call("cons", <<IntLit(1), IntLit(2)>>), op |-> "CONS",
        operands |-> <<IntV(2), IntV(1)>>],
       [expr |-> Call("cons", <<Sym("l"), Sym("p")>>), op |-> "CONS",
        operands |-> <<StructV(1), ListV(<<IntV(1), IntV(2)>>)>>],
       [expr |-> Call("first", <<NilNode>>), op |-> "FIRST", operands |-> <<NilV>>],
       [expr |-> Call("first", <<Call("list", <<>>)>>), op |-> "FIRST",
        operands |-> <<ListV(<<>>)>>],
       [expr |-> Call("first", <<Sym("p")>>), op |-> "FIRST", operands |-> <<StructV(1)>>],
       [expr |-> Call("rest", <<NilNode>>), op |-> "REST", operands |-> <<NilV>>],
       [expr |-> Call("rest", <<Call("list", <<>>)>>), op |-> "REST",
        operands |-> <<ListV(<<>>)>>],
       [expr |-> Call("rest", <<IntLit(5)>>), op |-> "REST", operands |-> <<IntV(5)>>],
       [expr |-> CallNode(IntLit(5), <<IntLit(1), IntLit(2)>>), op |-> "CALL",
        operands |-> <<IntV(1), IntV(2), IntV(5)>>],
       [expr |-> CallNode(Sym("l"), <<>>), op |-> "CALL",
        operands |-> <<ListV(<<IntV(1), IntV(2)>>)>>] >>

AbortProgram(c) ==
    << StructDefNode("P", <<"a">>),
       StaticNode("p", Call("P", <<IntLit(1)>>)),
       StaticNode("l", Call("list", <<IntLit(1), IntLit(2)>>)),
       Call("list", <<IntLit(7), StringNode("s"), AbortCases[c].expr>>) >>

(* (not V) *)
NotProgram(v) == << Call("not", <<TestValues[v].expr>>) >>

(* Module graphs with import cycles: the files main.ns, c1.ns and c2.ns,
   each using any of the three, itself included, with at most MaxUses use
   forms in all.  uses[m] is the set of the modules that m.ns uses.
   <m>.ns: (use <d> (v_<d>)) for each d it uses, (static v_<m> 1), (print "<m>") *)
MaxUses == 4

CycleModules == << Main, <<"c1">>, <<"c2">> >>

CycleGraphs ==
    {u \in [Range(CycleModules) -> SUBSET Range(CycleModules)] :
        Cardinality(UNION {{<<m, d>> : d \in u[m]} : m \in Range(CycleModules)}) <= MaxUses}

RECURSIVE CycleUses(_, _)
CycleUses(used, j) ==
    IF j > Len(CycleModules) THEN <<>>
    ELSE (IF CycleModules[j] \in used
          THEN <<UseNode(CycleModules[j], Names(<<"v_" \o CycleModules[j][1]>>))>>
          ELSE <<>>) \o CycleUses(used, j + 1)

CycleFiles(uses) ==
    [m \in Range(CycleModules) |->
        CycleUses(uses[m], 1)
        \o << StaticNode("v_" \o m[1], IntLit(1)), Call("print", <<StringNode(m[1])>>) >>]

(* Quoted data: each item of QuotedItems quoted on its own, and the lists of
   up to MaxQuoteLen of them:
   (quote D)   for D one of   a  10  "s"  true  nil  ()  (print a)  'c  '(d)  ((e) 2) *)
MaxQuoteLen == 2

QuotedItems ==
    << Sym("a"),
       Atom(IntV(10)),
       Atom(StrV("s")),
       Atom(BoolV(TRUE)),
       Atom(NilV),
       DataList(<<>>),
       DataList(<< Sym("print"), Sym("a") >>),
       QuoteNode(Sym("c")),
       QuoteNode(DataList(<< Sym("d") >>)),
       DataList(<< DataList(<< Sym("e") >>), Atom(IntV(2)) >>) >>

QuotedLists == UNION {[1..n -> DOMAIN QuotedItems] : n \in 0..MaxQuoteLen}

QuotedData(kind, items) ==
    IF kind = "item" THEN QuotedItems[items[1]]
    ELSE DataList([i \in DOMAIN items |-> QuotedItems[items[i]]])

QuotedProgram(kind, items) == << QuoteNode(QuotedData(kind, items)) >>

(* Two functions one of whose names is the other's followed by a digit,
   with n forms that take two labels each between them, n up to MaxFillers:
   (fn F () 1) (if true 1 2) .. (if true 1 2) (fn G () 2) (F)
   for F, G the names f1, f in either order. *)
MaxFillers == 4

DigitNames == << "f1", "f" >>

DigitLabelProgram(first, n) ==
    << FnNode(DigitNames[first], <<>>, <<IntLit(1)>>) >>
    \o [i \in 1..n |-> IfNode(BooleanNode(TRUE), IntLit(1), IntLit(2))]
    \o << FnNode(DigitNames[3 - first], <<>>, <<IntLit(2)>>),
          Call(DigitNames[first], <<>>) >>

(* A function defined before the function it calls:
   "call"     (fn f () (g)) (fn g () 5) (f)
   "mutual"   (fn f (n) (if (< n 1) 1 (g (- n 1))))
              (fn g (n) (if (< n 1) 2 (f (- n 1)))) (f N)
   for N up to MaxForwardArg. *)
MaxForwardArg == 3

ForwardProgram(kind, n) ==
    LET step(own, other) ==
            FnNode(own, <<"n">>,
                   << IfNode(Call("<", <<Sym("n"), IntLit(1)>>),
                             IntLit(IF own = "f" THEN 1 ELSE 2),
                             Call(other, <<Call("-", <<Sym("n"), IntLit(1)>>)>>)) >>)
    IN  IF kind = "call"
        THEN << FnNode("f", <<>>, <<Call("g", <<>>)>>), FnNode("g", <<>>, <<IntLit(5)>>),
                Call("f", <<>>) >>
        ELSE << step("f", "g"), step("g", "f"), Call("f", <<IntLit(n)>>) >>

(* A loop of k passes, k up to MaxLoops, evaluated with two values on the
   operand stack below it, its body counting down and then evaluating an
   expression B of LoopBodies (or nothing more, B = 0):
   (struct C (v)) (static c (C K))
   (list 7 "s" (while (< 0 (get c v)) (set c v (- (get c v) 1)) B)) *)
MaxLoops == 2

LoopBodies ==
    << IntLit(5),
       Call("print", <<StringNode("x")>>),
       IfNode(BooleanNode(TRUE), IntLit(1), IntLit(2)),
       LambdaNode(<<>>, <<IntLit(5)>>),
       LetNode(<<LetBinding("x", IntLit(1))>>, <<Sym("x")>>),
       BeginNode(<<>>),
       CallNode(LambdaNode(<<>>, <<IntLit(5)>>), <<>>),
       QuoteNode(Sym("a")),
       WhileNode(BooleanNode(FALSE), <<>>),
       Call("list", <<IntLit(1), IntLit(2)>>) >>

LoopProgram(k, body) ==
    LET count == GetNode(Sym("c"), "v") IN
    << StructDefNode("C", <<"v">>),
       StaticNode("c", Call("C", <<IntLit(k)>>)),
       Call("list",
            << IntLit(7), StringNode("s"),
               WhileNode(Call("<", <<IntLit(0), count>>),
                         << SetNode(Sym("c"), "v", Call("-", <<count, IntLit(1)>>)) >>
                         \o (IF body = 0 THEN <<>> ELSE <<LoopBodies[body]>>)) >>) >>

(* One expression of each kind, evaluated with two values on the operand
   stack below it, and the value it is to leave (for a closure and a struct
   instance, only its variant):
   (struct P (a b)) (static p (P 1 2)) (fn f (x y) (+ x y)) (list 7 "s" E) *)
AnyClosure == [t |-> "closure"]

ExpressionCases ==
    << [expr |-> IntLit(5), value |-> IntV(5)],
       [expr |-> NilNode, value |-> NilV],
       [expr |-> Sym("p"), value |-> StructV(1)],
       [expr |-> QuoteNode(Sym("a")), value |-> QuotedSymbol("a")],
       [expr |-> QuoteNode(DataList(<<Atom(IntV(1)), Sym("b")>>)),
        value |-> ListV(<<IntV(1), QuotedSymbol("b")>>)],
       [expr |-> Call("+", <<IntLit(1), IntLit(2)>>), value |-> IntV(3)],
       [expr |-> Call("not", <<BooleanNode(TRUE)>>), value |-> BoolV(FALSE)],
       [expr |-> Call("cons", <<IntLit(1), NilNode>>), value |-> ListV(<<IntV(1)>>)],
       [expr |-> Call("list", <<>>), value |-> ListV(<<>>)],
       [expr |-> Call("print", <<>>), value |-> NilV],
       [expr |-> Call("print", <<IntLit(1), IntLit(2)>>), value |-> NilV],
       [expr |-> Call("P", <<IntLit(3), IntLit(4)>>), value |-> StructV(2)],
       [expr |-> Call("f", <<IntLit(1), IntLit(2)>>), value |-> IntV(3)],
       [expr |-> CallNode(LambdaNode(<<>>, <<>>), <<>>), value |-> NilV],
       [expr |-> IfNode(BooleanNode(TRUE), IntLit(1), Call("print", <<IntLit(2)>>)),
        value |-> IntV(1)],
       [expr |-> IfNode(BooleanNode(FALSE), IntLit(1), Call("print", <<IntLit(2)>>)),
        value |-> NilV],
       [expr |-> IfNode(Call("<", <<IntLit(1), IntLit(2)>>),
                        IfNode(NilNode, IntLit(1), IntLit(2)), IntLit(3)),
        value |-> IntV(2)],
       [expr |-> LetNode(<<LetBinding("x", IntLit(1)), LetBinding("y", IntLit(2))>>,
                         <<Sym("x"), Sym("y")>>),
        value |-> IntV(2)],
       [expr |-> LetNode(<<LetBinding("x", IntLit(1))>>, <<>>), value |-> NilV],
       [expr |-> BeginNode(<<>>), value |-> NilV],
       [expr |-> BeginNode(<<IntLit(1), Call("print", <<IntLit(2)>>), IntLit(3)>>),
        value |-> IntV(3)],
       [expr |-> GetNode(Sym("p"), "b"), value |-> IntV(2)],
       [expr |-> SetNode(Sym("p"), "a", IntLit(9)), value |-> StructV(1)],
       [expr |-> LambdaNode(<<"x">>, <<Sym("x")>>), value |-> AnyClosure] >>

ExpressionProgram(e) ==
    << StructDefNode("P", <<"a", "b">>),
       StaticNode("p", Call("P", <<IntLit(1), IntLit(2)>>)),
       FnNode("f", <<"x", "y">>, <<Call("+", <<Sym("x"), Sym("y")>>)>>),
       Call("list", <<IntLit(7), StringNode("s"), ExpressionCases[e].expr>>) >>

(* A struct type of n fields, n up to MaxFields, an instance of it made
   over the values 10, 20, .., every field read, field i set to 99 and
   every field read again, through the static and through the value the
   set left:
   (struct P (a b c)) (static p (P 10 20 30))
   (static before (list (get p a) (get p b) (get p c)))
   (static q (set p b 99))
   (list before (list (get p a) ..) (list (get q a) ..)) *)
MaxFields == 3

FieldNames == <<"a", "b", "c", "d">>

FieldsOf(n) == SubSeq(FieldNames, 1, n)

GetEach(instance_name, n) ==
    Call("list", [j \in 1..n |-> GetNode(Sym(instance_name), FieldNames[j])])

FieldsProgram(n, i) ==
    << StructDefNode("P", FieldsOf(n)),
       StaticNode("p", Call("P", [j \in 1..n |-> IntLit(10 * j)])),
       StaticNode("before", GetEach("p", n)),
       StaticNode("q", SetNode(Sym("p"), FieldNames[i], IntLit(99))),
       Call("list", <<Sym("before"), GetEach("p", n), GetEach("q", n)>>) >>

(* A program that is one symbol: the first instruction of its image is the
   LOAD of that name. *)
FirstLoadNames == {"x", "global", "type", "main", "nil_", "self"}

FirstLoadProgram(name) == << Sym(name) >>

(* A value of each variant, and the type predicates applied to it:
   (struct P (a))
   (list (is_boolean E) (is_number E) (is_string E) (is_struct E)
         (is_function E) (is_list E)) *)
VariantCases ==
    << [variant |-> "integer", expr |-> IntLit(5)],
       [variant |-> "integer", expr |-> IntLit(0)],
       [variant |-> "float", expr |-> NumberNode(FloatV(1, 5))],
       [variant |-> "string", expr |-> StringNode("s")],
       [variant |-> "string", expr |-> StringNode("")],
       [variant |-> "boolean", expr |-> BooleanNode(TRUE)],
       [variant |-> "boolean", expr |-> BooleanNode(FALSE)],
       [variant |-> "nil", expr |-> NilNode],
       [variant |-> "list", expr |-> Call("list", <<>>)],
       [variant |-> "list", expr |-> Call("list", <<IntLit(1), BooleanNode(TRUE)>>)],
       [variant |-> "quoted symbol", expr |-> QuoteNode(Sym("a"))],
       [variant |-> "struct instance", expr |-> Call("P", <<IntLit(1)>>)],
       [variant |-> "closure", expr |-> LambdaNode(<<>>, <<IntLit(1)>>)] >>

VariantPredicates ==
    <<"is_boolean", "is_number", "is_string", "is_struct", "is_function", "is_list">>

VariantProgram(c) ==
    << StructDefNode("P", <<"a">>),
       Call("list", [j \in DOMAIN VariantPredicates |->
                        Call(VariantPredicates[j], <<VariantCases[c].expr>>)]) >>

(* The lists of the round trip, of every length from 1 to MaxListLen. *)
RECURSIVE ListsOfLength(_)
ListsOfLength(n) ==
    IF n = 0 THEN {<<>>}
    ELSE {<<e>> \o rest : e \in ListElements, rest \in ListsOfLength(n - 1)}

TestLists == UNION {ListsOfLength(n) : n \in 1..MaxListLen}

Scenarios ==
    {[name |-> n, v |-> v] : n \in {"if", "while"}, v \in DOMAIN TestValues}
    \cup {[name |-> "let_scope", place |-> p, outer |-> o] :
             p \in {"top", "function"}, o \in {"unbound", "bound"}}
    \cup {[name |-> "let_closure", kind |-> k] : k \in {"once", "in_fn", "twice", "calls"}}
    \cup {[name |-> "alias", kind |-> k, v |-> w] :
             k \in {"statics", "closure", "list"}, w \in DOMAIN TestValues}
    \cup {[name |-> "round_trip", elements |-> l] : l \in TestLists}
    \cup {[name |-> "test", kind |-> k] : k \in TestNames}
    \cup {[name |-> "module_test", kind |-> k] : k \in ModuleTestNames}
    \cup {[name |-> "labels", kind |-> k] : k \in LabelKinds}
    \cup {[name |-> "use_all", kind |-> k] : k \in UseAllKinds}
    \cup {[name |-> "struct_import", kind |-> k] : k \in StructImportKinds}
    \cup {[name |-> "dag", uses |-> u] : u \in DagGraphs(0)}
    \cup {[name |-> "missing_file", kind |-> "use"]}
    \cup {[name |-> "discard", kind |-> k] : k \in DiscardedKinds}
    \cup {[name |-> "fib", n |-> n] : n \in 0..MaxFibArg}
    \cup {[name |-> "error", kind |-> k] : k \in ErrorKinds}
    \cup {[name |-> "bytecode", kind |-> k] : k \in GivenKinds}
    \cup {[name |-> "use_twice", kind |-> k] : k \in UseTwiceKinds}
    \cup {[name |-> "quote", kind |-> k, a |-> a, b |-> b] :
             k \in QuoteKinds \ {"is_string"}, a \in SymbolNames, b \in SymbolNames}
    \cup {[name |-> "quote", kind |-> "is_string", a |-> a, b |-> a] : a \in SymbolNames}
    \cup {[name |-> "print", n |-> n] : n \in 0..MaxPrintArgs}
    \cup {[name |-> "call", n |-> n] : n \in 0..MaxParams}
    \cup {[name |-> "not", v |-> v] : v \in DOMAIN TestValues}
    \cup {[name |-> "cycle", uses |-> u] : u \in CycleGraphs}
    \cup {[name |-> "forward", kind |-> "call", n |-> 0]}
    \cup {[name |-> "forward", kind |-> "mutual", n |-> n] : n \in 0..MaxForwardArg}
    \cup {[name |-> "struct_clash", kind |-> k] : k \in StructClashKinds}
    \cup {[name |-> "loop", k |-> k, body |-> b] : k \in 0..MaxLoops, b \in 0..Len(LoopBodies)}
    \cup {[name |-> "expression", e |-> e] : e \in DOMAIN ExpressionCases}
    \cup UNION {{[name |-> "fields", n |-> n, i |-> i] : i \in 1..n} : n \in 1..MaxFields}
    \cup {[name |-> "first_load", symbol |-> x] : x \in FirstLoadNames}
    \cup {[name |-> "variant", c |-> c] : c \in DOMAIN VariantCases}
    \cup {[name |-> "arity", n |-> n, m |-> m] : n \in 0..MaxParams, m \in 0..MaxParams}
    \cup {[name |-> "tag", op |-> op, field |-> f] : op \in {"get", "set"}, f \in TagFieldNames}
    \cup {[name |-> "abort", c |-> c] : c \in DOMAIN AbortCases}
    \cup {[name |-> "digit_labels", first |-> f, n |-> n] : f \in 1..2, n \in 0..MaxFillers}
    \cup {[name |-> "quoted", kind |-> "item", items |-> <<i>>] : i \in DOMAIN QuotedItems}
    \cup {[name |-> "quoted", kind |-> "list", items |-> l] : l \in QuotedLists}

FilesOf(sc) ==
    CASE sc.name = "if" -> SingleFile(IfProgram(sc.v))
      [] sc.name = "while" -> SingleFile(WhileProgram(sc.v))
      [] sc.name = "let_scope" -> SingleFile(LetScopeProgram(sc.place, sc.outer))
      [] sc.name = "let_closure" -> SingleFile(LetClosureProgram(sc.kind))
      [] sc.name = "alias" -> SingleFile(AliasProgram(sc.kind, sc.v))
      [] sc.name = "round_trip" -> SingleFile(RoundTripProgram(sc.elements))
      [] sc.name = "test" -> SingleFile(TestProgram(sc.kind))
      [] sc.name = "module_test" -> ModuleTestFiles(sc.kind)
      [] sc.name = "labels" -> LabelFiles(sc.kind)
      [] sc.name = "use_all" -> UseAllFiles(sc.kind)
      [] sc.name = "struct_import" -> StructImportFiles(sc.kind)
      [] sc.name = "dag" -> DagFiles(sc.uses)
      [] sc.name = "discard" -> SingleFile(DiscardProgram(sc.kind))
      [] sc.name = "fib" -> SingleFile(FibProgram(sc.n))
      [] sc.name = "error" -> SingleFile(ErrorProgram(sc.kind))
      [] sc.name = "bytecode" -> EmptyMap
      [] sc.name = "use_twice" -> UseTwiceFiles(sc.kind)
      [] sc.name = "quote" -> SingleFile(QuoteProgram(sc.kind, sc.a, sc.b))
      [] sc.name = "print" -> SingleFile(PrintProgram(sc.n))
      [] sc.name = "call" -> SingleFile(CallProgram(sc.n))
      [] sc.name = "not" -> SingleFile(NotProgram(sc.v))
      [] sc.name = "cycle" -> CycleFiles(sc.uses)
      [] sc.name = "forward" -> SingleFile(ForwardProgram(sc.kind, sc.n))
      [] sc.name = "struct_clash" -> StructClashFiles(sc.kind)
      [] sc.name = "loop" -> SingleFile(LoopProgram(sc.k, sc.body))
      [] sc.name = "expression" -> SingleFile(ExpressionProgram(sc.e))
      [] sc.name = "fields" -> SingleFile(FieldsProgram(sc.n, sc.i))
      [] sc.name = "first_load" -> SingleFile(FirstLoadProgram(sc.symbol))
      [] sc.name = "variant" -> SingleFile(VariantProgram(sc.c))
      [] sc.name = "arity" -> SingleFile(ArityProgram(sc.n, sc.m))
      [] sc.name = "tag" -> SingleFile(TagProgram(sc.op, sc.field))
      [] sc.name = "abort" -> SingleFile(AbortProgram(sc.c))
      [] sc.name = "digit_labels" -> SingleFile(DigitLabelProgram(sc.first, sc.n))
      [] sc.name = "quoted" -> SingleFile(QuotedProgram(sc.kind, sc.items))
      [] OTHER -> MissingFiles

(* The main module's name (ns.py line 106) and the module files on disk. *)
MainModule == Main

Files == FilesOf(scenario)

(***************************************************************************)
(* The code generator.  A generator object is a record; every method       *)
(* takes the object and returns it as the method leaves it.  A raised      *)
(* CodeGenerationError is the field error: it ends the generation, and     *)
(* nothing of an object with an error is read but the error.               *)
(***************************************************************************)
PRIMITIVE_OPERATIONS ==
    [x \in {"+", "-", "*", "/", "=", ">", "<", "not", "print", "is_nil", "cons",
            "first", "rest", "list", "is_boolean", "is_number", "is_string",
            "is_list", "is_struct", "is_function"} |->
        CASE x = "+" -> "ADD" [] x = "-" -> "SUB" [] x = "*" -> "MUL"
          [] x = "/" -> "DIV" [] x = "=" -> "EQ" [] x = ">" -> "GT"
          [] x = "<" -> "LT" [] x = "not" -> "NOT" [] x = "print" -> "PRINT"
          [] x = "is_nil" -> "IS_NIL" [] x = "cons" -> "CONS"
          [] x = "first" -> "FIRST" [] x = "rest" -> "REST"
          [] x = "list" -> "MAKE_LIST" [] x = "is_boolean" -> "IS_BOOLEAN"
          [] x = "is_number" -> "IS_NUMBER" [] x = "is_string" -> "IS_STRING"
          [] x = "is_list" -> "IS_LIST" [] x = "is_struct" -> "IS_STRUCT"
          [] x = "is_function" -> "IS_FUNCTION"]

NewCodeGenerator(processed_modules_cache) ==
    [bytecode |-> <<>>,
     label_count |-> 0,
     global_env |-> EmptyMap,
     struct_definitions |-> EmptyMap,
     compile_time_env_chain |-> << [x \in {"type"} |-> "global"] >>,
     processed_modules_for_defs |-> processed_modules_cache,
     current_module_name_for_labels |-> "__main__",
     discovered_dependencies |-> {},
     nested_generators |-> <<>>,
     struct_recorded |-> EmptyMap,
     error |-> "none"]

(* History: the field lists assigned to struct_definitions[name], in the
   order of the assignments, with those of definitions for the names added. *)
Recorded(history, names, definitions) ==
    [x \in (DOMAIN history) \cup names |->
        (IF x \in DOMAIN history THEN history[x] ELSE <<>>)
        \o (IF x \in names THEN <<definitions[x]>> ELSE <<>>)]

RaiseCodeGenerationError(g, message) == [g EXCEPT !.error = message]

(* _new_label: the generator with the counter advanced, and the label. *)
LabelText(module_prefix, prefix, count) ==
    module_prefix \o "_" \o prefix \o ToString(count)

NewLabel(g, prefix) ==
    [g |-> [g EXCEPT !.label_count = @ + 1],
     label |-> LabelText(g.current_module_name_for_labels, prefix, g.label_count + 1)]

Emit(g, op, args) == [g EXCEPT !.bytecode = Append(@, Instr(op, args))]

EmitLabel(g, label) == [g EXCEPT !.bytecode = Append(@, LabelMarker(label))]

EnterScope(g) ==
    [g EXCEPT !.compile_time_env_chain = Append(@, [x \in {"type"} |-> "local"])]

ExitScope(g) ==
    IF Len(g.compile_time_env_chain) > 1
    THEN [g EXCEPT !.compile_time_env_chain = Front(@)]
    ELSE g

AddLocalToCurrentScope(g, name) ==
    LET n == Len(g.compile_time_env_chain) IN
    IF n > 0 /\ g.compile_time_env_chain[n]["type"] = "local"
    THEN [g EXCEPT !.compile_time_env_chain[n] = Put(@, name, "local_variable")]
    ELSE g

RECURSIVE GenerateExpression(_, _)
RECURSIVE GenerateEach(_, _, _, _)
RECURSIVE GenerateRuntimeValueForQuotedItem(_, _)
RECURSIVE GenerateQuotedItems(_, _, _)
RECURSIVE GenerateBindings(_, _, _)
RECURSIVE GenerateProgram(_, _, _)

(* The loops `for expr in ...: self._generate_expression(expr)` of the
   generator, from the i-th expression on.  after tells what the loop emits
   with each expression: nothing ("none"), POP after each but the last
   ("pop_between"), POP after each ("pop_each"), PRINT after each
   ("print_each"). *)
GenerateEach(exprs, i, after, g) ==
    IF g.error # "none" \/ i > Len(exprs) THEN g
    ELSE LET g1 == GenerateExpression(exprs[i], g)
             g2 == CASE after = "pop_between" /\ i < Len(exprs) -> Emit(g1, "POP", <<>>)
                     [] after = "pop_each" -> Emit(g1, "POP", <<>>)
                     [] after = "print_each" -> Emit(g1, "PRINT", <<>>)
                     [] OTHER -> g1
         IN  GenerateEach(exprs, i + 1, after, g2)

(* A body: PUSH None when it is empty, else its expressions with POP between. *)
GenerateBody(body, g) ==
    IF body = <<>> THEN Emit(g, "PUSH", <<NilV>>)
    ELSE GenerateEach(body, 1, "pop_between", g)

GenerateQuotedItems(items, i, g) ==
    IF g.error # "none" \/ i > Len(items) THEN g
    ELSE GenerateQuotedItems(items, i + 1,
                             GenerateRuntimeValueForQuotedItem(items[i], g))

GenerateRuntimeValueForQuotedItem(item_data, g) ==
    CASE item_data.k = "Symbol" -> Emit(g, "PUSH", <<QuotedSymbol(item_data.name)>>)
      [] item_data.k = "datalist" ->
            Emit(GenerateQuotedItems(item_data.items, 1, g), "MAKE_LIST",
                 <<Len(item_data.items)>>)
      [] item_data.k = "Quote" ->
            Emit(GenerateRuntimeValueForQuotedItem(
                     item_data.expression, Emit(g, "PUSH", <<QuotedSymbol("quote")>>)),
                 "MAKE_LIST", <<2>>)
      [] item_data.k = "atom" -> Emit(g, "PUSH", <<item_data.value>>)
      [] OTHER -> RaiseCodeGenerationError(g, "Cannot generate runtime value for quoted item")

GenerateQuoteNode(node, g) == GenerateRuntimeValueForQuotedItem(node.expression, g)

GenerateStaticNode(node, g) ==
    LET g1 == Emit(GenerateExpression(node.value, g), "STORE", <<node.name>>)
    IN  [g1 EXCEPT !.global_env =
            Put(@, node.name, [type |-> "static_variable", value_type |-> node.value.k])]

(* A body that would store its parameters first to last. *)
ParamsFirstToLast(params) == params

(* reversed(params): the order in which the body stores its parameters. *)
ParamsInStoreOrder(params) == [i \in 1..Len(params) |-> params[Len(params) - i + 1]]

(* for param_node in reversed(params): STORE, then record the local. *)
RECURSIVE StoreParams(_, _, _)
StoreParams(order, i, g) ==
    IF i > Len(order) THEN g
    ELSE StoreParams(order, i + 1,
                     AddLocalToCurrentScope(Emit(g, "STORE", <<order[i]>>), order[i]))

GenerateFnOrLambdaBody(name_for_label, params, body, is_named_fn, g) ==
    LET label_prefix == g.current_module_name_for_labels \o "_"
                        \o (IF is_named_fn THEN "fn" ELSE "lambda") \o "_" \o name_for_label
        e == NewLabel(g, label_prefix)
        entry_label == e.label
        g1 == Emit(e.g, "MAKE_CLOSURE", <<entry_label>>)
        g2 == IF is_named_fn
              THEN [Emit(g1, "STORE", <<name_for_label>>) EXCEPT !.global_env =
                       Put(@, name_for_label,
                           [type |-> "function", label |-> entry_label, params |-> params])]
              ELSE g1
        x == NewLabel(g2, "end_" \o label_prefix)
        end_body_label == x.label
        g3 == EnterScope(EmitLabel(Emit(x.g, "JUMP", <<end_body_label>>), entry_label))
        g4 == StoreParams(ParamsInStoreOrder(params), 1, g3)
        g5 == Emit(GenerateBody(body, g4), "RETURN", <<>>)
    IN  EmitLabel(ExitScope(g5), end_body_label)

GenerateFnNode(node, g) ==
    GenerateFnOrLambdaBody(node.name, node.params, node.body, TRUE, g)

GenerateLambdaNode(node, g) ==
    GenerateFnOrLambdaBody("anon", node.params, node.body, FALSE, g)

GenerateStructDefNode(node, g) ==
    IF /\ node.name \in DOMAIN g.struct_definitions
       /\ g.struct_definitions[node.name] # node.fields
    THEN RaiseCodeGenerationError(g, "Struct already defined with different fields")
    ELSE [g EXCEPT !.struct_definitions = Put(@, node.name, node.fields),
                   !.global_env = Put(@, node.name,
                                      [type |-> "struct_type", fields |-> node.fields]),
                   !.struct_recorded = Recorded(@, {node.name}, Put(EmptyMap, node.name, node.fields))]

(* The arity _generate_call_node expects of a primitive other than print and list. *)
ExpectedArity(op_name) ==
    CASE op_name \in {"+", "-", "*", "/", "=", ">", "<", "cons"} -> 2
      [] op_name \in {"not", "is_nil", "first", "rest", "is_boolean", "is_number",
                      "is_string", "is_list", "is_struct", "is_function"} -> 1
      [] OTHER -> 0

RECURSIVE EmitTimes(_, _, _)
EmitTimes(g, op, n) == IF n <= 0 THEN g ELSE EmitTimes(Emit(g, op, <<>>), op, n - 1)

(* A print that would evaluate all its arguments first and write their
   lines afterwards. *)
PrintArgumentsAfter(arguments, g) ==
    EmitTimes(GenerateEach(arguments, 1, "none", g), "PRINT", Len(arguments))

(* for arg_expr in node.arguments: the expression, then PRINT. *)
PrintArguments(arguments, g) == GenerateEach(arguments, 1, "print_each", g)

GeneratePrimitiveCall(node, op_name, g) ==
    CASE op_name = "print" ->
            Emit(IF node.arguments = <<>>
                 THEN Emit(Emit(g, "PUSH", <<StrV("")>>), "PRINT", <<>>)
                 ELSE PrintArguments(node.arguments, g),
                 "PUSH", <<NilV>>)
      [] op_name = "list" ->
            Emit(GenerateEach(node.arguments, 1, "none", g), "MAKE_LIST",
                 <<Len(node.arguments)>>)
      [] OTHER ->
            IF Len(node.arguments) # ExpectedArity(op_name)
            THEN RaiseCodeGenerationError(g, "Primitive: wrong number of args")
            ELSE Emit(IF op_name = "cons"
                      THEN GenerateExpression(node.arguments[1],
                                              GenerateExpression(node.arguments[2], g))
                      ELSE GenerateEach(node.arguments, 1, "none", g),
                      PRIMITIVE_OPERATIONS[op_name], <<>>)

GenerateStructConstruction(node, struct_name, field_names, g) ==
    IF Len(node.arguments) # Len(field_names)
    THEN RaiseCodeGenerationError(g, "Struct: wrong number of args")
    ELSE Emit(GenerateEach(node.arguments, 1, "none", g), "MAKE_STRUCT",
              <<struct_name, field_names>>)

GenerateGeneralCall(node, g) ==
    Emit(GenerateExpression(node.callable_expr,
                            GenerateEach(node.arguments, 1, "none", g)),
         "CALL", <<Len(node.arguments)>>)

GenerateCallNode(node, g) ==
    IF node.callable_expr.k = "Symbol"
    THEN LET op_name == node.callable_expr.name IN
         CASE op_name \in DOMAIN PRIMITIVE_OPERATIONS ->
                GeneratePrimitiveCall(node, op_name, g)
           [] op_name \in DOMAIN g.struct_definitions ->
                GenerateStructConstruction(node, op_name, g.struct_definitions[op_name], g)
           [] /\ op_name \in DOMAIN g.global_env
              /\ g.global_env[op_name].type = "struct_type" ->
                GenerateStructConstruction(node, op_name, g.global_env[op_name].fields, g)
           [] OTHER -> GenerateGeneralCall(node, g)
    ELSE GenerateGeneralCall(node, g)

(* An if whose then branch would leave nothing on the stack. *)
GenerateIfNodePoppingThen(node, g) ==
    LET a == NewLabel(g, "else")
        b == NewLabel(a.g, "end_if")
        g1 == Emit(GenerateExpression(node.condition, b.g), "JUMP_IF_FALSE", <<a.label>>)
        g2 == Emit(Emit(GenerateExpression(node.then_branch, g1), "POP", <<>>),
                   "JUMP", <<b.label>>)
        g3 == GenerateExpression(node.else_branch, EmitLabel(g2, a.label))
    IN  EmitLabel(g3, b.label)

GenerateIfNode(node, g) ==
    LET a == NewLabel(g, "else")
        b == NewLabel(a.g, "end_if")
        g1 == Emit(GenerateExpression(node.condition, b.g), "JUMP_IF_FALSE", <<a.label>>)
        g2 == Emit(GenerateExpression(node.then_branch, g1), "JUMP", <<b.label>>)
        g3 == GenerateExpression(node.else_branch, EmitLabel(g2, a.label))
    IN  EmitLabel(g3, b.label)

GenerateBindings(bindings, i, g) ==
    IF g.error # "none" \/ i > Len(bindings) THEN g
    ELSE GenerateBindings(bindings, i + 1,
             AddLocalToCurrentScope(
                 Emit(GenerateExpression(bindings[i].value, g), "STORE",
                      <<bindings[i].name>>),
                 bindings[i].name))

GenerateLetNode(node, g) ==
    ExitScope(GenerateBody(node.body, GenerateBindings(node.bindings, 1, EnterScope(g))))

GenerateGetNode(node, g) ==
    Emit(GenerateExpression(node.instance, g), "GET_FIELD", <<node.field_name>>)

GenerateSetNode(node, g) ==
    Emit(GenerateExpression(node.value, GenerateExpression(node.instance, g)),
         "SET_FIELD", <<node.field_name>>)

(* A while that would pop the value of each body expression but the last. *)
GenerateWhileNodePopBetween(node, g) ==
    LET a == NewLabel(g, "while_start")
        b == NewLabel(a.g, "while_end")
        g1 == Emit(GenerateExpression(node.condition, EmitLabel(b.g, a.label)),
                   "JUMP_IF_FALSE", <<b.label>>)
        g2 == Emit(GenerateEach(node.body, 1, "pop_between", g1), "JUMP", <<a.label>>)
    IN  Emit(EmitLabel(g2, b.label), "PUSH", <<NilV>>)

GenerateWhileNode(node, g) ==
    LET a == NewLabel(g, "while_start")
        b == NewLabel(a.g, "while_end")
        g1 == Emit(GenerateExpression(node.condition, EmitLabel(b.g, a.label)),
                   "JUMP_IF_FALSE", <<b.label>>)
        g2 == Emit(GenerateEach(node.body, 1, "pop_each", g1), "JUMP", <<a.label>>)
    IN  Emit(EmitLabel(g2, b.label), "PUSH", <<NilV>>)

GenerateBeginNode(node, g) == GenerateBody(node.expressions, g)

GenerateExpression(expr_node, g) ==
    IF g.error # "none" THEN g
    ELSE CASE expr_node.k = "Number" -> Emit(g, "PUSH", <<expr_node.value>>)
           [] expr_node.k = "String" -> Emit(g, "PUSH", <<StrV(expr_node.value)>>)
           [] expr_node.k = "Boolean" -> Emit(g, "PUSH", <<BoolV(expr_node.value)>>)
           [] expr_node.k = "Nil" -> Emit(g, "PUSH", <<NilV>>)
           [] expr_node.k = "Symbol" -> Emit(g, "LOAD", <<expr_node.name>>)
           [] expr_node.k = "Quote" -> GenerateQuoteNode(expr_node, g)
           [] expr_node.k = "Call" -> GenerateCallNode(expr_node, g)
           [] expr_node.k = "If" -> GenerateIfNode(expr_node, g)
           [] expr_node.k = "Let" -> GenerateLetNode(expr_node, g)
           [] expr_node.k = "Lambda" -> GenerateLambdaNode(expr_node, g)
           [] expr_node.k = "Get" -> GenerateGetNode(expr_node, g)
           [] expr_node.k = "Set" -> GenerateSetNode(expr_node, g)
           [] expr_node.k = "While" -> GenerateWhileNode(expr_node, g)
           [] expr_node.k = "Begin" -> GenerateBeginNode(expr_node, g)
           [] expr_node.k \in {"Static", "Fn", "StructDef", "Use"} ->
                RaiseCodeGenerationError(g, "Definition node found in expression context")
           [] OTHER -> RaiseCodeGenerationError(g, "Unsupported expression type")

(* The names a use form imports from the nested generator temp. *)
ItemsToImport(node, temp) ==
    CASE node.items.k = "Symbol" /\ node.items.name = "*" ->
            (DOMAIN temp.global_env) \cup (DOMAIN temp.struct_definitions)
      [] node.items.k = "itemlist" ->
            {node.items.names[i].name : i \in DOMAIN node.items.names}
      [] OTHER -> {}

(* The loop `for item_name in items_to_import_names` of _generate_use_node. *)
ImportItems(g, temp, names) ==
    LET structs_after ==
            [x \in (DOMAIN g.struct_definitions)
                   \cup (names \cap DOMAIN temp.struct_definitions) |->
                IF x \in names /\ x \in DOMAIN temp.struct_definitions
                THEN temp.struct_definitions[x] ELSE g.struct_definitions[x]]
        env_after ==
            [x \in (DOMAIN g.global_env)
                   \cup (names \cap ((DOMAIN temp.global_env)
                                     \cup DOMAIN temp.struct_definitions)) |->
                CASE x \in names /\ x \in DOMAIN temp.global_env -> temp.global_env[x]
                  [] x \in DOMAIN g.global_env -> g.global_env[x]
                  [] OTHER -> [type |-> "struct_type",
                               fields |-> temp.struct_definitions[x]]]
    IN  [g EXCEPT !.struct_definitions = structs_after, !.global_env = env_after,
                  !.struct_recorded = Recorded(@, names \cap DOMAIN temp.struct_definitions,
                                               temp.struct_definitions)]

(* A test that would take the mark of a module for valid only when other
   modules are marked too. *)
AlreadyProcessedWithOthers(module_name, processed_modules_for_defs) ==
    /\ module_name \in processed_modules_for_defs
    /\ Cardinality(processed_modules_for_defs) > 1

(* Whether _generate_use_node returns at once: the module's definitions are
   already marked as processed in this compilation run. *)
AlreadyProcessed(module_name, processed_modules_for_defs) ==
    module_name \in processed_modules_for_defs

GenerateUseNode(node, g) ==
    LET module_name_to_load == node.module_name
        g1 == [g EXCEPT !.discovered_dependencies = @ \cup {module_name_to_load}]
    IN
    IF AlreadyProcessed(module_name_to_load, g.processed_modules_for_defs) THEN g1
    ELSE IF module_name_to_load \notin DOMAIN Files
    THEN RaiseCodeGenerationError(
             [g1 EXCEPT !.processed_modules_for_defs = @ \cup {module_name_to_load}],
             "Module file not found")
    ELSE LET temp_dep_codegen ==
                 GenerateProgram(
                     Files[module_name_to_load], module_name_to_load,
                     NewCodeGenerator(g.processed_modules_for_defs
                                      \cup {module_name_to_load}))
             g2 == [g1 EXCEPT
                      !.processed_modules_for_defs =
                          temp_dep_codegen.processed_modules_for_defs,
                      !.discovered_dependencies =
                          @ \cup temp_dep_codegen.discovered_dependencies,
                      !.nested_generators =
                          @ \o <<module_name_to_load>>
                            \o temp_dep_codegen.nested_generators]
         IN  IF temp_dep_codegen.error # "none"
             THEN RaiseCodeGenerationError(g2, temp_dep_codegen.error)
             ELSE ImportItems(g2, temp_dep_codegen, ItemsToImport(node, temp_dep_codegen))

(* Whether _generate_top_level_form emits a POP after an expression form
   that is not the last form of the program. *)
NeedsPop(bytecode, start_len) ==
    /\ Len(bytecode) > start_len
    /\ ~IsLabelMarker(Last(bytecode))
    /\ Last(bytecode).op \notin {"STORE", "JUMP", "RETURN", "HALT", "PRINT"}

GenerateTopLevelForm(form, is_last_form_in_program, g) ==
    CASE form.k = "Static" -> GenerateStaticNode(form, g)
      [] form.k = "Fn" -> GenerateFnNode(form, g)
      [] form.k = "StructDef" -> GenerateStructDefNode(form, g)
      [] form.k \in ExpressionKinds ->
            LET g1 == GenerateExpression(form, g) IN
            IF /\ g1.error = "none"
               /\ ~is_last_form_in_program
               /\ NeedsPop(g1.bytecode, Len(g.bytecode))
            THEN Emit(g1, "POP", <<>>)
            ELSE g1
      [] OTHER -> RaiseCodeGenerationError(g, "Unsupported top-level form")

IsUseNode(form) == form.k = "Use"

IsNotUseNode(form) == form.k # "Use"

RECURSIVE GenerateUseForms(_, _, _)
GenerateUseForms(use_forms, i, g) ==
    IF g.error # "none" \/ i > Len(use_forms) THEN g
    ELSE GenerateUseForms(use_forms, i + 1, GenerateUseNode(use_forms[i], g))

RECURSIVE GenerateOtherForms(_, _, _)
GenerateOtherForms(other_forms, i, g) ==
    IF g.error # "none" \/ i > Len(other_forms) THEN g
    ELSE GenerateOtherForms(other_forms, i + 1,
             GenerateTopLevelForm(other_forms[i], i = Len(other_forms), g))

GenerateProgram(program_node, module_name, g) ==
    LET g0 == [g EXCEPT !.bytecode = <<>>,
                        !.discovered_dependencies = {},
                        !.current_module_name_for_labels = SanitizePieces(module_name)]
        g1 == GenerateUseForms(SelectSeq(program_node, IsUseNode), 1, g0)
    IN  GenerateOtherForms(SelectSeq(program_node, IsNotUseNode), 1, g1)

(***************************************************************************)
(* The module linker (ns.py).                                              *)
(*                                                                         *)
(* compile_all_modules_recursively recurses over a Python set, whose       *)
(* iteration order is not fixed (string hashing is seeded per process):    *)
(* each call in progress is a record of compile_calls holding the          *)
(* dependencies its loop has not visited yet, and the loop takes any of    *)
(* them next.                                                              *)
(***************************************************************************)
NoInstr == Instr("NONE", <<>>)

(* The dependencies the loop of compile_all_modules_recursively walks:
   what generate_program returned as the module's direct dependencies. *)
DirectDependencies(codegen) == codegen.discovered_dependencies

(* Lines 68-72 and 85-91 of compile_all_modules_recursively: what the call does with
   the code generator that generate_program has filled. *)
RecordGenerated(module_name, callers, codegen) ==
    /\ shared_definitions_cache_for_codegen' =
           codegen.processed_modules_for_defs
    /\ generators_created' =
           generators_created
           \o <<[module_name |-> module_name, nested |-> FALSE]>>
           \o [i \in DOMAIN codegen.nested_generators |->
                  [module_name |-> codegen.nested_generators[i], nested |-> TRUE]]
    /\ IF codegen.error # "none"
       THEN /\ phase' = "raising"
            /\ compile_calls' = callers
            /\ UNCHANGED compilation_in_progress_stack
       ELSE /\ phase' = "compiling"
            /\ compilation_in_progress_stack' =
                   Append(compilation_in_progress_stack, module_name)
            /\ compile_calls' =
                   Append(callers,
                          [module_name |-> module_name,
                           own_bytecode |-> codegen.bytecode,
                           pending |-> DirectDependencies(codegen),
                           codegen |-> codegen])

(* Lines 48-72 of compile_all_modules_recursively for a module that is
   neither compiled nor in progress, called from the calls `callers`. *)
CompileModule(module_name, callers) ==
    IF module_name \notin DOMAIN Files
    THEN /\ phase' = "raising"
         /\ compile_calls' = callers
         /\ UNCHANGED <<compilation_in_progress_stack,
                        shared_definitions_cache_for_codegen, generators_created>>
    ELSE RecordGenerated(
             module_name, callers,
             GenerateProgram(
                 Files[module_name], module_name,
                 NewCodeGenerator(shared_definitions_cache_for_codegen)))

(* compile_program_with_dependencies, up to its call for the main module. *)
CompileProgramWithDependencies ==
    /\ phase = "start"
    /\ scenario.name # "bytecode"
    /\ CompileModule(MainModule, <<>>)
    /\ UNCHANGED <<scenario, exit_status, module_own_bytecode_cache, ordered_modules_for_linking,
                   final_bytecode>>
    /\ UNCHANGED vm_vars

(* A linker that would not look at the modules in progress. *)
ReturnsAtOnceWhenCompiled(module_name) ==
    module_name \in DOMAIN module_own_bytecode_cache

(* The early returns of compile_all_modules_recursively. *)
ReturnsAtOnce(module_name) ==
    \/ module_name \in DOMAIN module_own_bytecode_cache
    \/ module_name \in Range(compilation_in_progress_stack)

TakePending(calls, dep_name) ==
    [calls EXCEPT ![Len(calls)].pending = @ \ {dep_name}]

(* The loop calls compile_all_modules_recursively for a dependency that is
   compiled already or in progress. *)
SkipDependency ==
    /\ phase = "compiling"
    /\ compile_calls # <<>>
    /\ \E dep_name \in Last(compile_calls).pending :
          /\ ReturnsAtOnce(dep_name)
          /\ compile_calls' = TakePending(compile_calls, dep_name)
    /\ UNCHANGED <<scenario, exit_status, phase, module_own_bytecode_cache,
                   ordered_modules_for_linking, shared_definitions_cache_for_codegen, generators_created,
                   compilation_in_progress_stack, final_bytecode>>
    /\ UNCHANGED vm_vars

(* The loop calls compile_all_modules_recursively for a dependency that
   is compiled now. *)
CompileDependency ==
    /\ phase = "compiling"
    /\ compile_calls # <<>>
    /\ \E dep_name \in Last(compile_calls).pending :
          /\ ~ReturnsAtOnce(dep_name)
          /\ CompileModule(dep_name, TakePending(compile_calls, dep_name))
    /\ UNCHANGED <<scenario, exit_status, module_own_bytecode_cache, ordered_modules_for_linking,
                   final_bytecode>>
    /\ UNCHANGED vm_vars

(* A linker that would put a module in front of the modules recorded
   before it. *)
RecordModuleFirst(ordered, module_name) ==
    IF module_name \in Range(ordered) THEN ordered ELSE <<module_name>> \o ordered

(* ordered_modules_for_linking after a module's loop over its dependencies. *)
RecordModule(ordered, module_name) ==
    IF module_name \in Range(ordered) THEN ordered ELSE Append(ordered, module_name)

(* Lines 82-85 and 97-98: the loop over the dependencies is done. *)
FinishModule ==
    /\ phase = "compiling"
    /\ compile_calls # <<>>
    /\ Last(compile_calls).pending = {}
    /\ LET call == Last(compile_calls) IN
       /\ IF call.module_name \notin DOMAIN module_own_bytecode_cache
          THEN /\ module_own_bytecode_cache' =
                     Put(module_own_bytecode_cache, call.module_name, call.own_bytecode)
               /\ ordered_modules_for_linking' =
                     RecordModule(ordered_modules_for_linking, call.module_name)
          ELSE UNCHANGED <<module_own_bytecode_cache, ordered_modules_for_linking>>
       /\ compilation_in_progress_stack' =
             IF call.module_name \in Range(compilation_in_progress_stack)
             THEN Front(compilation_in_progress_stack)
             ELSE compilation_in_progress_stack
    /\ compile_calls' = Front(compile_calls)
    /\ phase' = IF Len(compile_calls) = 1 THEN "linking" ELSE "compiling"
    /\ UNCHANGED <<scenario, exit_status, shared_definitions_cache_for_codegen, generators_created, final_bytecode>>
    /\ UNCHANGED vm_vars

(* The except clause of each call in progress (lines 87-93), and the error
   leaving compile_program_with_dependencies. *)
PropagateError ==
    /\ phase = "raising"
    /\ IF compile_calls = <<>>
       THEN /\ phase' = "compile_error"
            /\ UNCHANGED <<compile_calls, compilation_in_progress_stack>>
       ELSE /\ phase' = "raising"
            /\ compile_calls' = Front(compile_calls)
            /\ compilation_in_progress_stack' =
                  IF Last(compile_calls).module_name
                        \in Range(compilation_in_progress_stack)
                  THEN Front(compilation_in_progress_stack)
                  ELSE compilation_in_progress_stack
    /\ UNCHANGED <<scenario, exit_status, module_own_bytecode_cache, ordered_modules_for_linking,
                   shared_definitions_cache_for_codegen, generators_created, final_bytecode>>
    /\ UNCHANGED vm_vars

HALT == Instr("HALT", <<>>)

(* A linker that would put a module's bytecode into the image twice. *)
ModuleContributionTwice(module_name, module_bc, main_module_name) == module_bc \o module_bc

(* What a module contributes to the image: its bytecode, without a
   trailing HALT when it is not the main module. *)
ModuleContribution(module_name, module_bc, main_module_name) ==
    IF module_name # main_module_name /\ module_bc # <<>> /\ Last(module_bc) = HALT
    THEN Front(module_bc)
    ELSE module_bc

RECURSIVE ConcatModules(_, _, _)
ConcatModules(ordered, cache, main_module_name) ==
    IF ordered = <<>> THEN <<>>
    ELSE (IF Head(ordered) \in DOMAIN cache
          THEN ModuleContribution(Head(ordered), cache[Head(ordered)], main_module_name)
          ELSE <<>>)
         \o ConcatModules(Tail(ordered), cache, main_module_name)

(* A linker that would leave the image as the modules end it. *)
WithoutFinalHalt(bytecode) == bytecode

(* Lines 147-151: the image ends in HALT unless it ends in a HALT, RETURN
   or JUMP instruction already. *)
WithFinalHalt(bytecode) ==
    IF \/ bytecode = <<>>
       \/ IsLabelMarker(Last(bytecode))
       \/ Last(bytecode).op \notin {"HALT", "RETURN", "JUMP"}
    THEN Append(bytecode, HALT)
    ELSE bytecode

(* Lines 124-152 of compile_program_with_dependencies. *)
LinkModules ==
    /\ phase = "linking"
    /\ final_bytecode' =
          WithFinalHalt(ConcatModules(ordered_modules_for_linking,
                                      module_own_bytecode_cache, MainModule))
    /\ phase' = "linked"
    /\ UNCHANGED <<scenario, exit_status, module_own_bytecode_cache, ordered_modules_for_linking,
                   shared_definitions_cache_for_codegen, generators_created, compilation_in_progress_stack,
                   compile_calls>>
    /\ UNCHANGED vm_vars

(***************************************************************************)
(* The virtual machine (vm.py).                                            *)
(*                                                                         *)
(* Frames and struct instances are Python dicts that several holders       *)
(* share: frames[i] and structs[i] are the objects, and an environment     *)
(* chain, a closure and a struct value hold their indices.                 *)
(***************************************************************************)
RECURSIVE FindLabelsCountingMarkers(_, _, _)
(* A label scan that would count the label markers as instructions. *)
FindLabelsCountingMarkers(rest, instruction_index, found) ==
    IF rest = <<>> THEN [labels |-> found, error |-> "none"]
    ELSE IF IsLabelMarker(Head(rest))
    THEN IF Head(rest).args[1] \in DOMAIN found
         THEN [labels |-> found, error |-> "ValueError"]
         ELSE FindLabelsCountingMarkers(Tail(rest), instruction_index + 1,
                                        Put(found, Head(rest).args[1], instruction_index))
    ELSE FindLabelsCountingMarkers(Tail(rest), instruction_index + 1, found)

RECURSIVE FindLabels(_, _, _)
(* _find_labels over the rest of the code: the label map, or the error. *)
FindLabels(rest, instruction_index, found) ==
    IF rest = <<>> THEN [labels |-> found, error |-> "none"]
    ELSE IF IsLabelMarker(Head(rest))
    THEN IF Head(rest).args[1] \in DOMAIN found
         THEN [labels |-> found, error |-> "ValueError"]
         ELSE FindLabels(Tail(rest), instruction_index,
                         Put(found, Head(rest).args[1], instruction_index))
    ELSE FindLabels(Tail(rest), instruction_index + 1, found)

IsInstruction(inst) == ~IsLabelMarker(inst)

EffectiveCode == SelectSeq(code, IsInstruction)

CodeLen == Len(EffectiveCode)

(* The caller has a bytecode list of its own to execute. *)
GiveBytecode ==
    /\ phase = "start"
    /\ scenario.name = "bytecode"
    /\ final_bytecode' = GivenBytecode(scenario.kind)
    /\ phase' = "given"
    /\ UNCHANGED <<scenario, exit_status, module_own_bytecode_cache,
                   ordered_modules_for_linking, shared_definitions_cache_for_codegen, generators_created,
                   compilation_in_progress_stack, compile_calls>>
    /\ UNCHANGED vm_vars

(* execute_bytecode: VirtualMachine(bytecode), whose label scan may raise. *)
LoadVM ==
    /\ phase \in {"linked", "given"}
    /\ LET found == FindLabels(final_bytecode, 0, EmptyMap) IN
       IF found.error # "none"
       THEN /\ phase' = "load_error"
            /\ UNCHANGED vm_vars
       ELSE /\ phase' = "running"
            /\ code' = final_bytecode
            /\ labels' = found.labels
            /\ operand_stack' = <<>>
            /\ call_stack' = <<>>
            /\ call_frames' = <<>>
            /\ ip' = 0
            /\ frames' = << [x \in {"global"} |-> DictV] >>
            /\ env_chain' = <<1>>
            /\ vm_status' = "running"
            /\ UNCHANGED <<structs, output, last_instr, result>>
    /\ UNCHANGED <<scenario, exit_status>>
    /\ UNCHANGED linker_vars

Fetch == EffectiveCode[ip + 1]

(* The loop condition of run() holds, and the instruction at ip has opcode op. *)
Executing(op) ==
    /\ phase = "running"
    /\ vm_status = "running"
    /\ ip >= 0 /\ ip < CodeLen
    /\ Fetch.op = op
    /\ last_instr' = Fetch
    /\ UNCHANGED <<scenario, exit_status, phase, code, labels, result>>
    /\ UNCHANGED linker_vars

Depth == Len(operand_stack)

Top == operand_stack[Depth]

Below == operand_stack[Depth - 1]

(* The stack without its n topmost values. *)
Popped(n) == SubSeq(operand_stack, 1, Depth - n)

(* A handler that would swallow the exception and go on with the next
   instruction. *)
RuntimeErrorSwallowed(exception, stack) ==
    /\ vm_status' = vm_status
    /\ ip' = ip + 1
    /\ operand_stack' = stack
    /\ UNCHANGED <<call_stack, call_frames, env_chain, frames, structs, output>>

(* The except clause of run(): the loop is left with the stack as the
   instruction left it. *)
RuntimeError(exception, stack) ==
    /\ vm_status' = exception
    /\ ip' = CodeLen
    /\ operand_stack' = stack
    /\ UNCHANGED <<call_stack, call_frames, env_chain, frames, structs, output>>

(* The instruction only changed the operand stack. *)
StackStep(stack) ==
    /\ operand_stack' = stack
    /\ ip' = ip + 1
    /\ UNCHANGED <<vm_status, call_stack, call_frames, env_chain, frames, structs, output>>

(* _get_instruction_index for a label; -1 stands for its ValueError. *)
GetInstructionIndex(target) == IF target \in DOMAIN labels THEN labels[target] ELSE -1

RECURSIVE LookupFrom(_, _)
(* _lookup from the i-th frame of the chain outwards: the value, or the
   NameError. *)
LookupFrom(var_name, i) ==
    IF i < 1 THEN [found |-> FALSE, value |-> NilV]
    ELSE IF var_name \in DOMAIN frames[env_chain[i]]
    THEN [found |-> TRUE, value |-> frames[env_chain[i]][var_name]]
    ELSE LookupFrom(var_name, i - 1)

(* A lookup that would search the innermost frame alone. *)
LookupInnermost(var_name) ==
    IF var_name \in DOMAIN frames[Last(env_chain)]
    THEN [found |-> TRUE, value |-> frames[Last(env_chain)][var_name]]
    ELSE [found |-> FALSE, value |-> NilV]

Lookup(var_name) == LookupFrom(var_name, Len(env_chain))

DoPush ==
    /\ Executing("PUSH")
    /\ StackStep(Append(operand_stack, Fetch.args[1]))

DoPop ==
    /\ Executing("POP")
    /\ IF Depth = 0 THEN RuntimeError("IndexError", operand_stack)
       ELSE StackStep(Popped(1))

RECURSIVE RepeatText(_, _)
RepeatText(text, n) == IF n <= 0 THEN "" ELSE text \o RepeatText(text, n - 1)

RECURSIVE RepeatList(_, _)
RepeatList(items, n) == IF n <= 0 THEN <<>> ELSE items \o RepeatList(items, n - 1)

(* Python's left + right, left - right, left * right: the value, or
   ok = FALSE for the TypeError. *)
Arithmetic(op, left, right) ==
    LET l == Num(left)
        r == Num(right)
    IN
    CASE IsNumeric(left) /\ IsNumeric(right) /\ op = "ADD" ->
            [ok |-> TRUE,
             value |-> NumResult(left, right, <<l[1] * r[2] + r[1] * l[2], l[2] * r[2]>>)]
      [] IsNumeric(left) /\ IsNumeric(right) /\ op = "SUB" ->
            [ok |-> TRUE,
             value |-> NumResult(left, right, <<l[1] * r[2] - r[1] * l[2], l[2] * r[2]>>)]
      [] IsNumeric(left) /\ IsNumeric(right) /\ op = "MUL" ->
            [ok |-> TRUE, value |-> NumResult(left, right, <<l[1] * r[1], l[2] * r[2]>>)]
      [] op = "ADD" /\ left.t = "str" /\ right.t = "str" ->
            [ok |-> TRUE, value |-> StrV(left.v \o right.v)]
      [] op = "ADD" /\ left.t = "list" /\ right.t = "list" ->
            [ok |-> TRUE, value |-> ListV(left.v \o right.v)]
      [] op = "MUL" /\ left.t = "str" /\ right.t \in {"int", "bool"} ->
            [ok |-> TRUE, value |-> StrV(RepeatText(left.v, r[1]))]
      [] op = "MUL" /\ right.t = "str" /\ left.t \in {"int", "bool"} ->
            [ok |-> TRUE, value |-> StrV(RepeatText(right.v, l[1]))]
      [] op = "MUL" /\ left.t = "list" /\ right.t \in {"int", "bool"} ->
            [ok |-> TRUE, value |-> ListV(RepeatList(left.v, r[1]))]
      [] op = "MUL" /\ right.t = "list" /\ left.t \in {"int", "bool"} ->
            [ok |-> TRUE, value |-> ListV(RepeatList(right.v, l[1]))]
      [] OTHER -> [ok |-> FALSE, value |-> NilV]

(* ADD, SUB, MUL *)
DoArithmetic ==
    \E op \in {"ADD", "SUB", "MUL"} :
        /\ Executing(op)
        /\ IF Depth < 2 THEN RuntimeError("IndexError", operand_stack)
           ELSE LET a == Arithmetic(op, Below, Top) IN
                IF a.ok THEN StackStep(Append(Popped(2), a.value))
                ELSE RuntimeError("TypeError", Popped(2))

(* DIV for numbers.  float(left) of a string is a ValueError here: the
   strings of the programs drawn are not numerals. *)
DoDiv ==
    /\ Executing("DIV")
    /\ IF Depth < 2 THEN RuntimeError("IndexError", operand_stack)
       ELSE LET right == Top
                left == Below
            IN
            CASE IsNumeric(right) /\ Num(right)[1] = 0 ->
                    RuntimeError("ZeroDivisionError", Popped(2))
              [] IsNumeric(left) /\ IsNumeric(right) ->
                    LET q == Reduce(Num(left)[1] * Num(right)[2],
                                    Num(left)[2] * Num(right)[1])
                    IN  StackStep(Append(Popped(2), FloatV(q[1], q[2])))
              [] left.t = "str" -> RuntimeError("ValueError", Popped(2))
              [] OTHER -> RuntimeError("TypeError", Popped(2))

DoEq ==
    /\ Executing("EQ")
    /\ IF Depth < 2 THEN RuntimeError("IndexError", operand_stack)
       ELSE StackStep(Append(Popped(2), BoolV(PyEq(Below, Top))))

(* Whether Python orders the two values with < and >.  Two strings, two
   lists and two tuples are ordered too; the model executes LT and GT on
   numbers and on values Python refuses to order. *)
Ordered(left, right) == IsNumeric(left) /\ IsNumeric(right)

Unordered(left, right) ==
    /\ ~Ordered(left, right)
    /\ ~(left.t = right.t /\ left.t \in {"str", "list", "qsym", "closure"})

(* LT, GT *)
DoCompare ==
    \E op \in {"LT", "GT"} :
        /\ Executing(op)
        /\ IF Depth < 2 THEN RuntimeError("IndexError", operand_stack)
           ELSE LET l == Num(Below)
                    r == Num(Top)
                IN
                /\ Ordered(Below, Top) \/ Unordered(Below, Top)
                /\ IF Ordered(Below, Top)
                   THEN StackStep(Append(Popped(2),
                            BoolV(IF op = "LT" THEN l[1] * r[2] < r[1] * l[2]
                                  ELSE l[1] * r[2] > r[1] * l[2])))
                   ELSE RuntimeError("TypeError", Popped(2))

DoNot ==
    /\ Executing("NOT")
    /\ IF Depth = 0 THEN RuntimeError("IndexError", operand_stack)
       ELSE StackStep(Append(Popped(1), BoolV(~Truthy(Top))))

DoLoad ==
    /\ Executing("LOAD")
    /\ LET l == Lookup(Fetch.args[1]) IN
       IF l.found THEN StackStep(Append(operand_stack, l.value))
       ELSE RuntimeError("NameError", operand_stack)

(* A STORE that would write into the outermost frame of the chain. *)
StoreInOutermost(var_name, value) ==
    [frames EXCEPT ![env_chain[1]] = Put(@, var_name, value)]

(* _store: the frames after writing into the innermost frame of the chain. *)
Store(var_name, value) ==
    [frames EXCEPT ![Last(env_chain)] = Put(@, var_name, value)]

DoStore ==
    /\ Executing("STORE")
    /\ IF Depth = 0 THEN RuntimeError("IndexError", operand_stack)
       ELSE IF env_chain = <<>> THEN RuntimeError("RuntimeError", Popped(1))
       ELSE /\ frames' = Store(Fetch.args[1], Top)
            /\ operand_stack' = Popped(1)
            /\ ip' = ip + 1
            /\ UNCHANGED <<vm_status, call_stack, call_frames, env_chain, structs, output>>

DoJump ==
    /\ Executing("JUMP")
    /\ IF GetInstructionIndex(Fetch.args[1]) < 0
       THEN RuntimeError("ValueError", operand_stack)
       ELSE /\ ip' = GetInstructionIndex(Fetch.args[1])
            /\ UNCHANGED <<operand_stack, vm_status, call_stack, call_frames, env_chain, frames,
                           structs, output>>

(* Whether JUMP_IF_FALSE takes the jump on the popped value. *)
BranchesOn(value) == ~Truthy(value)

DoJumpIfFalse ==
    /\ Executing("JUMP_IF_FALSE")
    /\ IF Depth = 0 THEN RuntimeError("IndexError", operand_stack)
       ELSE IF BranchesOn(Top)
       THEN IF GetInstructionIndex(Fetch.args[1]) < 0
            THEN RuntimeError("ValueError", Popped(1))
            ELSE /\ ip' = GetInstructionIndex(Fetch.args[1])
                 /\ operand_stack' = Popped(1)
                 /\ UNCHANGED <<vm_status, call_stack, call_frames, env_chain, frames, structs, output>>
       ELSE StackStep(Popped(1))

(* The chain a closure captures: list(self.env_chain), a new list of the
   same frame objects. *)
CapturedEnv(chain) == chain

DoMakeClosure ==
    /\ Executing("MAKE_CLOSURE")
    /\ StackStep(Append(operand_stack, Closure(Fetch.args[1], CapturedEnv(env_chain))))

(* A CALL that would run the body in the closure's environment itself,
   without a frame of its own. *)
CalleeEnvWithoutFrame(defining_env, new_frame) == defining_env

(* A CALL that would run the body in a chain of the new frame alone. *)
CalleeEnvFrameOnly(defining_env, new_frame) == <<new_frame>>

(* callee.defining_env + [{}]: the chain of the callee's body. *)
CalleeEnv(defining_env, new_frame) == defining_env \o <<new_frame>>

(* A CALL that would save the global frame alone for the chain to return to. *)
SavedWithGlobalEnv(return_ip, chain) == [ip |-> return_ip, env_chain |-> <<chain[1]>>]

(* (self.ip, self.env_chain): what CALL saves on the call stack, the ip
   having been advanced past the CALL. *)
Saved(return_ip, chain) == [ip |-> return_ip, env_chain |-> chain]

DoCall ==
    /\ Executing("CALL")
    /\ IF Depth < Fetch.args[1] + 1 THEN RuntimeError("IndexError", operand_stack)
       ELSE IF Top.t # "closure" THEN RuntimeError("TypeError", operand_stack)
       ELSE /\ call_stack' = Append(call_stack, Saved(ip + 1, env_chain))
            /\ call_frames' = Append(call_frames,
                                     [at |-> ip, env_chain |-> env_chain,
                                      depth |-> Len(call_stack), frame |-> Len(frames) + 1])
            /\ frames' = Append(frames, EmptyMap)
            /\ env_chain' = CalleeEnv(Top.defining_env, Len(frames) + 1)
            /\ operand_stack' = Popped(1)
            /\ IF GetInstructionIndex(Top.code_label) < 0
               THEN vm_status' = "ValueError" /\ ip' = CodeLen
               ELSE vm_status' = vm_status /\ ip' = GetInstructionIndex(Top.code_label)
            /\ UNCHANGED <<structs, output>>

DoReturn ==
    /\ Executing("RETURN")
    /\ IF call_stack = <<>>
       THEN /\ vm_status' = "top_level_return"
            /\ ip' = CodeLen
            /\ UNCHANGED <<operand_stack, call_stack, call_frames, env_chain, frames, structs, output>>
       ELSE /\ ip' = Last(call_stack).ip
            /\ env_chain' = Last(call_stack).env_chain
            /\ call_stack' = Front(call_stack)
            /\ call_frames' = Front(call_frames)
            /\ UNCHANGED <<operand_stack, vm_status, frames, structs, output>>

RECURSIVE AssignFields(_, _, _, _)
(* for i, name in enumerate(field_names_tuple): struct_instance[name] = field_values[i] *)
AssignFields(instance, field_names, field_values, i) ==
    IF i > Len(field_names) THEN instance
    ELSE AssignFields(Put(instance, field_names[i], field_values[i]),
                      field_names, field_values, i + 1)

(* An instance whose fields would take the values in the order they are
   popped. *)
NewStructInstanceInPopOrder(struct_name, field_names, field_values) ==
    AssignFields([x \in {"__type__"} |-> StrV(struct_name)], field_names,
                 [j \in DOMAIN field_values |-> field_values[Len(field_values) + 1 - j]], 1)

NewStructInstance(struct_name, field_names, field_values) ==
    AssignFields([x \in {"__type__"} |-> StrV(struct_name)], field_names, field_values, 1)

DoMakeStruct ==
    /\ Executing("MAKE_STRUCT")
    /\ LET field_count == Len(Fetch.args[2]) IN
       IF Depth < field_count THEN RuntimeError("IndexError", operand_stack)
       ELSE /\ structs' = Append(structs,
                   NewStructInstance(Fetch.args[1], Fetch.args[2],
                                     SubSeq(operand_stack, Depth - field_count + 1, Depth)))
            /\ operand_stack' = Append(Popped(field_count), StructV(Len(structs) + 1))
            /\ ip' = ip + 1
            /\ UNCHANGED <<vm_status, call_stack, call_frames, env_chain, frames, output>>

(* isinstance(instance, dict) and "__type__" in instance *)
IsStructInstance(x) == x.t = "struct" /\ "__type__" \in DOMAIN structs[x.v]

DoGetField ==
    /\ Executing("GET_FIELD")
    /\ IF Depth = 0 THEN RuntimeError("IndexError", operand_stack)
       ELSE IF ~IsStructInstance(Top) THEN RuntimeError("TypeError", operand_stack)
       ELSE IF Fetch.args[1] \notin DOMAIN structs[Top.v]
       THEN RuntimeError("AttributeError", operand_stack)
       ELSE StackStep(Append(Popped(1), structs[Top.v][Fetch.args[1]]))

(* A SET_FIELD that would leave the instance alone and update a copy of
   it. *)
SetFieldInCopy(instances, id, field_name, new_value) ==
    Append(instances, Put(instances[id], field_name, new_value))

(* instance[field_name_str] = new_value, on the instance object itself. *)
SetFieldInPlace(instances, id, field_name, new_value) ==
    [instances EXCEPT ![id] = Put(@, field_name, new_value)]

DoSetField ==
    /\ Executing("SET_FIELD")
    /\ IF Depth < 2 THEN RuntimeError("IndexError", operand_stack)
       ELSE LET new_value == Top
                instance == Below
            IN
            IF ~IsStructInstance(instance) THEN RuntimeError("TypeError", operand_stack)
            ELSE IF Fetch.args[1] \notin DOMAIN structs[instance.v]
            THEN RuntimeError("AttributeError", operand_stack)
            ELSE /\ structs' = SetFieldInPlace(structs, instance.v, Fetch.args[1], new_value)
                 /\ operand_stack' = Append(Popped(2), instance)
                 /\ ip' = ip + 1
                 /\ UNCHANGED <<vm_status, call_stack, call_frames, env_chain, frames, output>>

DoIsNil ==
    /\ Executing("IS_NIL")
    /\ IF Depth = 0 THEN RuntimeError("IndexError", operand_stack)
       ELSE StackStep(Append(Popped(1), BoolV(Top.t = "nil")))

(* CONS of item onto lst, a list or None. *)
(* A CONS that would add the item behind the list. *)
ConsAtEnd(item, lst) == IF lst.t = "nil" THEN ListV(<<item>>) ELSE ListV(lst.v \o <<item>>)

Cons(item, lst) == IF lst.t = "nil" THEN ListV(<<item>>) ELSE ListV(<<item>> \o lst.v)

(* A CONS that would put its operands back in the order it popped them
   when the list operand is of the wrong kind. *)
DoConsRestoringInPopOrder ==
    /\ Executing("CONS")
    /\ IF Depth < 2 THEN RuntimeError("IndexError", operand_stack)
       ELSE LET item == Top
                lst == Below
            IN
            IF lst.t \notin {"nil", "list"}
            THEN RuntimeError("TypeError", Append(Append(Popped(2), item), lst))
            ELSE StackStep(Append(Popped(2), Cons(item, lst)))

DoCons ==
    /\ Executing("CONS")
    /\ IF Depth < 2 THEN RuntimeError("IndexError", operand_stack)
       ELSE LET item == Top
                lst == Below
            IN
            IF lst.t \notin {"nil", "list"} THEN RuntimeError("TypeError", operand_stack)
            ELSE StackStep(Append(Popped(2), Cons(item, lst)))

(* isinstance(lst, list) and lst *)
IsNonEmptyList(lst) == lst.t = "list" /\ Len(lst.v) > 0

First(lst) == lst.v[1]

DoFirst ==
    /\ Executing("FIRST")
    /\ IF Depth = 0 THEN RuntimeError("IndexError", operand_stack)
       ELSE IF ~IsNonEmptyList(Top) THEN RuntimeError("TypeError", operand_stack)
       ELSE StackStep(Append(Popped(1), First(Top)))

(* lst[1:] if len(lst) > 1 else None *)
Rest(lst) == IF Len(lst.v) > 1 THEN ListV(Tail(lst.v)) ELSE NilV

DoRest ==
    /\ Executing("REST")
    /\ IF Depth = 0 THEN RuntimeError("IndexError", operand_stack)
       ELSE IF ~IsNonEmptyList(Top) THEN RuntimeError("TypeError", operand_stack)
       ELSE StackStep(Append(Popped(1), Rest(Top)))

(* A MAKE_LIST that would keep the values in the order they are popped. *)
PoppedInPopOrder(stack, arg_count) ==
    [i \in 1..arg_count |-> stack[Len(stack) - i + 1]]

(* [self.operand_stack.pop() for _ in range(arg_count)][::-1]: the arg_count
   topmost values, the deepest first. *)
PoppedReversed(stack, arg_count) ==
    SubSeq(stack, Len(stack) - arg_count + 1, Len(stack))

DoMakeList ==
    /\ Executing("MAKE_LIST")
    /\ LET arg_count == Fetch.args[1] IN
       IF Depth < arg_count THEN RuntimeError("IndexError", operand_stack)
       ELSE StackStep(Append(Popped(arg_count),
                             ListV(PoppedReversed(operand_stack, arg_count))))

(* The isinstance tests of the IS_* opcodes. *)
TypePredicate(op, x) ==
    CASE op = "IS_BOOLEAN" -> x.t = "bool"
      [] op = "IS_NUMBER" -> x.t \in {"int", "float", "bool"}
      [] op = "IS_STRING" -> x.t = "str"
      [] op = "IS_LIST" -> x.t \in {"list", "nil"}
      [] op = "IS_STRUCT" -> IsStructInstance(x)
      [] op = "IS_FUNCTION" -> x.t = "closure"

(* IS_BOOLEAN, IS_NUMBER, IS_STRING, IS_LIST, IS_STRUCT, IS_FUNCTION *)
DoTypePredicate ==
    \E op \in {"IS_BOOLEAN", "IS_NUMBER", "IS_STRING", "IS_LIST", "IS_STRUCT",
               "IS_FUNCTION"} :
        /\ Executing(op)
        /\ IF Depth = 0 THEN RuntimeError("IndexError", operand_stack)
           ELSE StackStep(Append(Popped(1), BoolV(TypePredicate(op, Top))))

(* A HALT that would do nothing and let the loop go on. *)
DoHaltContinues ==
    /\ Executing("HALT")
    /\ ip' = ip + 1
    /\ UNCHANGED <<vm_status, operand_stack, call_stack, call_frames, env_chain, frames, structs,
                   output>>

DoHalt ==
    /\ Executing("HALT")
    /\ vm_status' = "halted"
    /\ ip' = CodeLen
    /\ UNCHANGED <<operand_stack, call_stack, call_frames, env_chain, frames, structs, output>>

DoPrint ==
    /\ Executing("PRINT")
    /\ IF Depth = 0 THEN RuntimeError("IndexError", operand_stack)
       ELSE /\ output' = Append(output, Top)
            /\ operand_stack' = Popped(1)
            /\ ip' = ip + 1
            /\ UNCHANGED <<vm_status, call_stack, call_frames, env_chain, frames, structs>>

(* Lines 398-400: the loop is left; run() returns the top of the stack. *)
RunReturns ==
    /\ phase = "running"
    /\ vm_status # "running" \/ ip < 0 \/ ip >= CodeLen
    /\ result' = IF operand_stack # <<>> THEN Top ELSE NilV
    /\ phase' = "done"
    /\ UNCHANGED <<scenario, exit_status, code, labels, operand_stack, call_stack, call_frames, ip, env_chain,
                   frames, structs, output, vm_status, last_instr>>
    /\ UNCHANGED linker_vars

(* The end of __main__ (ns.py 179-194): an exception of the compilation or
   of the VM constructor is caught and the process exits with status 1;
   when execute_bytecode has returned, the script ends and the status is 0. *)
ExitStatusAfter(position) == IF position = "done" THEN 0 ELSE 1

MainExits ==
    /\ phase \in {"done", "compile_error", "load_error"}
    /\ phase' = "exited"
    /\ exit_status' = ExitStatusAfter(phase)
    /\ UNCHANGED scenario
    /\ UNCHANGED linker_vars
    /\ UNCHANGED vm_vars

(* The members of OpCode. *)
OpCode ==
    {"PUSH", "POP", "ADD", "SUB", "MUL", "DIV", "EQ", "LT", "GT", "NOT", "LOAD",
     "STORE", "JUMP", "JUMP_IF_FALSE", "MAKE_CLOSURE", "CALL", "RETURN",
     "MAKE_STRUCT", "GET_FIELD", "SET_FIELD", "HALT", "PRINT", "IS_NIL", "CONS",
     "FIRST", "REST", "MAKE_LIST", "IS_BOOLEAN", "IS_NUMBER", "IS_STRING",
     "IS_LIST", "IS_STRUCT", "IS_FUNCTION"}

(* The else branch of the dispatch: the opcode is none of OpCode. *)
DoUnknownOpcode ==
    /\ phase = "running"
    /\ ip >= 0 /\ ip < CodeLen
    /\ Fetch.op \notin OpCode
    /\ Executing(Fetch.op)
    /\ RuntimeError("RuntimeError", operand_stack)

VMStep ==
    \/ DoPush \/ DoPop \/ DoArithmetic \/ DoDiv \/ DoEq \/ DoCompare \/ DoNot
    \/ DoLoad \/ DoStore \/ DoJump \/ DoJumpIfFalse
    \/ DoMakeClosure \/ DoCall \/ DoReturn
    \/ DoMakeStruct \/ DoGetField \/ DoSetField
    \/ DoIsNil \/ DoCons \/ DoFirst \/ DoRest \/ DoMakeList \/ DoTypePredicate
    \/ DoHalt \/ DoPrint \/ DoUnknownOpcode

IsErrorStatus(status) ==
    status \in {"IndexError", "NameError", "ZeroDivisionError", "ValueError",
                "RuntimeError", "TypeError", "AttributeError"}

(***************************************************************************)
(* A run: compile_program_with_dependencies(main file), then               *)
(* execute_bytecode on what it returned.                                   *)
(***************************************************************************)
Init ==
    /\ scenario \in Scenarios
    /\ phase = "start"
    /\ module_own_bytecode_cache = EmptyMap
    /\ ordered_modules_for_linking = <<>>
    /\ shared_definitions_cache_for_codegen = {}
    /\ compilation_in_progress_stack = <<>>
    /\ compile_calls = <<>>
    /\ generators_created = <<>>
    /\ final_bytecode = <<>>
    /\ code = <<>>
    /\ labels = EmptyMap
    /\ operand_stack = <<>>
    /\ call_stack = <<>>
    /\ call_frames = <<>>
    /\ ip = 0
    /\ env_chain = <<>>
    /\ frames = <<>>
    /\ structs = <<>>
    /\ output = <<>>
    /\ vm_status = "idle"
    /\ last_instr = NoInstr
    /\ result = NilV
    /\ exit_status = -1

Next ==
    \/ CompileProgramWithDependencies
    \/ GiveBytecode
    \/ SkipDependency
    \/ CompileDependency
    \/ FinishModule
    \/ PropagateError
    \/ LinkModules
    \/ LoadVM
    \/ VMStep
    \/ RunReturns
    \/ MainExits

Spec == Init /\ [][Next]_vars

(* compile_program_with_dependencies on its own: the call for the main
   file, up to the linked image or the error that leaves it.  The call goes
   on as long as it has a step to take. *)
CompileNext ==
    \/ CompileProgramWithDependencies
    \/ SkipDependency
    \/ CompileDependency
    \/ FinishModule
    \/ PropagateError
    \/ LinkModules

CompileInit == Init /\ scenario.name # "bytecode"

(* The guards of the steps of CompileNext: the call has a step to take. *)
CanCompileStep ==
    \/ phase \in {"start", "raising", "linking"}
    \/ phase = "compiling" /\ compile_calls # <<>>

(* Weak fairness of CompileNext: a call that can take a step from some point
   on for ever takes one.  It is WF_vars(CompileNext) written out, with
   CanCompileStep standing for ENABLED <<CompileNext>>_vars: the Python
   interpreter runs the one thread of the call until it returns or raises.
   CanCompileStep is the disjunction of the guards of the six steps, and
   each of them changes phase or compile_calls when it is taken. *)
CompileGoesOn == []<>(~CanCompileStep) \/ []<><<CompileNext>>_vars

CompileSpec == CompileInit /\ [][CompileNext]_vars /\ CompileGoesOn

(***************************************************************************)
(* What the properties below read off a run.                               *)
(***************************************************************************)
RECURSIVE SameValue(_, _)
(* Two runtime values are the same value of the same type. *)
SameValue(a, b) ==
    /\ a.t = b.t
    /\ CASE a.t = "list" ->
               /\ Len(a.v) = Len(b.v)
               /\ \A i \in 1..Len(a.v) : SameValue(a.v[i], b.v[i])
         [] a.t = "closure" -> a = b
         [] OTHER -> a.v = b.v

(* The run is over: run() has returned. *)
Returned == phase = "done"

(* compile_program_with_dependencies has returned the linked image. *)
Linked ==
    /\ scenario.name # "bytecode"
    /\ phase \in {"linked", "running", "done", "load_error"}

(* The modules a module's file names in its use forms. *)
UsesOf(module_name) ==
    IF module_name \in DOMAIN Files
    THEN {Files[module_name][i].module_name :
             i \in {j \in DOMAIN Files[module_name] : IsUseNode(Files[module_name][j])}}
    ELSE {}

RECURSIVE ReachableFrom(_)
ReachableFrom(modules) ==
    LET further == modules \cup UNION {UsesOf(m) : m \in modules}
    IN  IF further = modules THEN modules ELSE ReachableFrom(further)

(* No module of the program reaches itself through use forms. *)
AcyclicProgram ==
    \A m \in ReachableFrom({MainModule}) : m \notin ReachableFrom(UsesOf(m))

(* The generator of a module compiled on its own. *)
OwnGenerator(module_name) ==
    GenerateProgram(Files[module_name], module_name, NewCodeGenerator({}))

(* JUMP_IF_FALSE is about to pop a value. *)
AtJumpIfFalse ==
    /\ phase = "running"
    /\ vm_status = "running"
    /\ ip >= 0 /\ ip < CodeLen
    /\ Fetch.op = "JUMP_IF_FALSE"
    /\ Depth > 0

IsFalseOrNil(value) == value.t = "nil" \/ (value.t = "bool" /\ ~value.v)

(* C1: JUMP_IF_FALSE transfers control to its target if and only if the
   popped value is the boolean false or nil, and falls through to the next
   instruction for every other value. *)
C1_JumpsOnlyOnFalseOrNil ==
    [][AtJumpIfFalse =>
          IF IsFalseOrNil(Top)
          THEN ip' = GetInstructionIndex(Fetch.args[1])
          ELSE ip' = ip + 1]_vars

(* C2: after a let has finished, a name it bound resolves as before the
   let: the later x aborts the run when x was unbound, and yields the outer
   value 1 when the let shadowed it, at top level and in a function body. *)
C2_LetRestoresBindings ==
    (Returned /\ scenario.name = "let_scope") =>
        IF scenario.outer = "unbound"
        THEN vm_status = "NameError"
        ELSE vm_status = "halted" /\ SameValue(result, IntV(1))

(* C3: a closure created in a let body and called after the let (and after
   the function that ran the let has returned) yields the value the let
   bound to x when the closure was made: 1 in every program. *)
C3_ClosureSeesLetBindings ==
    (Returned /\ scenario.name = "let_closure") =>
        vm_status = "halted" /\ SameValue(result, IntV(1))

IsCircularTest ==
    scenario.name = "module_test" /\ scenario.kind = "Module: Circular Use for Definitions"

(* C4: the circular-import program compiles and its linked image returns
   30, whatever order the linker visits the dependencies in. *)
C4_CircularImportReturns30 ==
    IsCircularTest =>
        /\ phase \notin {"raising", "compile_error", "load_error"}
        /\ Returned => (vm_status = "halted" /\ SameValue(result, IntV(30)))

(* Every module that a module of ordered_modules names in a use form
   occurs before it, and the main module is the last entry. *)
DependenciesFirst(ordered) ==
    /\ ordered # <<>>
    /\ Last(ordered) = MainModule
    /\ \A i \in DOMAIN ordered :
          \A d \in UsesOf(ordered[i]) : \E j \in 1..(i - 1) : ordered[j] = d

(* C5: after linking an acyclic module graph, every module that a module
   of ordered_modules names in a use form occurs before it, and the main
   module is the last entry: a linked order without that property belongs
   to a cyclic graph only. *)
C5_DependenciesBeforeDependents ==
    Linked => (DependenciesFirst(ordered_modules_for_linking) \/ ~AcyclicProgram)

(* C5 happens: an acyclic graph of four modules is linked in which one
   module is used by two others. *)
C5_Witness ==
    /\ phase = "linked"
    /\ AcyclicProgram
    /\ Len(ordered_modules_for_linking) >= 4
    /\ \E m1, m2 \in Range(ordered_modules_for_linking) :
          m1 # m2 /\ UsesOf(m1) \cap UsesOf(m2) # {}

(* C6: no label marker occurs twice in a linked image, and loading the
   image never fails with a duplicate-label error. *)
C6_NoLabelTwice ==
    Linked =>
        /\ phase # "load_error"
        /\ \A i, j \in DOMAIN final_bytecode :
              (i # j /\ IsLabelMarker(final_bytecode[i]) /\ IsLabelMarker(final_bytecode[j]))
                  => final_bytecode[i].args[1] # final_bytecode[j].args[1]

IsUseAll(form) == IsUseNode(form) /\ form.items.k = "Symbol" /\ form.items.name = "*"

(* C7: after code generation of a module with a wildcard use of M, every
   name of M's global_env and struct_definitions is in the importing
   generator's global_env, and every struct name in its
   struct_definitions. *)
C7_UseAllImportsEveryName ==
    \A c \in DOMAIN compile_calls :
       \A f \in DOMAIN Files[compile_calls[c].module_name] :
          LET form == Files[compile_calls[c].module_name][f]
              importer == compile_calls[c].codegen
          IN  (IsUseAll(form) /\ form.module_name \in DOMAIN Files) =>
                 LET exporter == OwnGenerator(form.module_name) IN
                 /\ (DOMAIN exporter.global_env) \cup (DOMAIN exporter.struct_definitions)
                        \subseteq DOMAIN importer.global_env
                 /\ DOMAIN exporter.struct_definitions
                        \subseteq DOMAIN importer.struct_definitions

(* The struct types a module imports: the names its use forms import that
   are struct types of the module they name. *)
ImportedStructTypes(module_name) ==
    UNION {LET form == Files[module_name][f] IN
           IF IsUseNode(form) /\ form.module_name \in DOMAIN Files
           THEN LET exporter == OwnGenerator(form.module_name) IN
                ItemsToImport(form, exporter) \cap DOMAIN exporter.struct_definitions
           ELSE {} : f \in DOMAIN Files[module_name]}

(* The call was lowered to LOAD of the name followed by CALL. *)
LoadsAndCalls(bytecode, names) ==
    \E i \in 1..(Len(bytecode) - 1) :
       /\ bytecode[i].op = "LOAD"
       /\ bytecode[i].args[1] \in names
       /\ bytecode[i + 1].op = "CALL"

(* C8: in every module of a linked program a call of an imported struct
   type is never lowered to LOAD of the type name followed by CALL (it is
   lowered to MAKE_STRUCT), and a wrong argument count stops the
   compilation with an error. *)
C8_ImportedStructCallMakesStruct ==
    /\ \A m \in DOMAIN module_own_bytecode_cache :
          ~LoadsAndCalls(module_own_bytecode_cache[m], ImportedStructTypes(m))
    /\ (scenario.name = "struct_import" /\ scenario.kind = "wrong_count")
          => /\ phase \in {"start", "raising", "compile_error", "exited"}
             /\ phase = "exited" => exit_status = 1

(* C9: a set done through one name of a struct instance is observed by a
   later get through every other reference to the instance: another
   static, a closure's captured frame, a list element. *)
C9_SetReachesEveryReference ==
    (Returned /\ scenario.name = "alias") =>
        vm_status = "halted" /\ SameValue(result, TestValues[scenario.v].value)

(* C9 happens: the instance was set through the static and the closure
   read the new value, which differs from the old one, from its captured
   frame. *)
C9_Witness ==
    /\ Returned
    /\ scenario.name = "alias"
    /\ scenario.kind = "closure"
    /\ vm_status = "halted"
    /\ SameValue(result, TestValues[scenario.v].value)
    /\ ~SameValue(result, IntV(1))
    /\ \E i \in DOMAIN frames : \E x \in DOMAIN frames[i] :
          x = "p" /\ frames[i][x].t = "struct"

(* The list the round trip starts from. *)
RoundTripList == ListV([i \in DOMAIN scenario.elements |-> ElementValue(scenario.elements[i])])

(* C10: for every non-empty list L up to the bound, CONS of FIRST of L
   and REST of L is a list equal to L; for length 1, REST yields nil. *)
C10_ConsFirstRestRoundTrip ==
    scenario.name = "round_trip" =>
        /\ Returned => (vm_status = "halted" /\ SameValue(result, RoundTripList))
        /\ (/\ phase = "running" /\ vm_status = "running" /\ last_instr.op = "REST"
            /\ Len(scenario.elements) = 1)
              => SameValue(Top, NilV)

(* C10 happens: a list of the longest length, with different elements,
   went through FIRST, REST and CONS. *)
C10_Witness ==
    /\ Returned
    /\ scenario.name = "round_trip"
    /\ Len(scenario.elements) = MaxListLen
    /\ scenario.elements[1] # scenario.elements[MaxListLen]
    /\ vm_status = "halted"
    /\ last_instr.op = "HALT"
    /\ SameValue(result, RoundTripList)

(* C11: a top-level expression form that is not the last one leaves the
   operand stack as deep as it found it, whatever its kind: when the
   program E 99 halts, the stack holds the value of the last form and
   nothing else, and that value is the result. *)
C11_DiscardedFormsLeaveNoValue ==
    (Returned /\ scenario.name = "discard") =>
        /\ vm_status = "halted"
        /\ Depth = 1
        /\ SameValue(result, IntV(99))

(* C12: the compiled recursive Fibonacci program halts with the N-th
   Fibonacci number of the reference definition as its result, for every
   N up to MaxFibArg. *)
C12_FibReturnsFibonacci ==
    (Returned /\ scenario.name = "fib") =>
        /\ vm_status = "halted"
        /\ SameValue(result, IntV(py_fib(scenario.n)))

(* C12 happens: (fib MaxFibArg) ran through its recursive calls, each in
   a frame of its own, and returned at the top level. *)
C12_Witness ==
    /\ Returned
    /\ scenario.name = "fib"
    /\ scenario.n = MaxFibArg
    /\ vm_status = "halted"
    /\ call_stack = <<>>
    /\ Len(frames) > MaxFibArg
    /\ SameValue(result, IntV(py_fib(MaxFibArg)))

(* C13: a run that hit a runtime error ends in an outcome that differs
   from a normal result: execute_bytecode does not return a value to its
   caller, and the process exits with a status other than 0. *)
C13_RuntimeErrorReachesCaller ==
    IsErrorStatus(vm_status) =>
        /\ phase # "done"
        /\ phase = "exited" => exit_status # 0

(* The run is in or past the error handler of run(). *)
Failed == phase \in {"running", "done", "exited"} /\ IsErrorStatus(vm_status)

(* C14: the first instruction that raises a runtime error is the last
   one executed: the loop is left at once (ip is the code length, so no
   instruction is enabled), and when run() has returned from the program
   (print 1) E (print 2) (set p x 2) (static z 3) the instruction that
   raised in E is the last one executed, only the line of (print 1) was
   written, p.x is still 1 and no z was stored. *)
C14_FirstErrorEndsRun ==
    /\ Failed => (ip = CodeLen /\ (phase = "running" => ENABLED RunReturns))
    /\ (scenario.name = "error" /\ phase \in {"done", "exited"}) =>
          /\ vm_status = RaisedBy(scenario.kind).exception
          /\ last_instr.op = RaisedBy(scenario.kind).op
          /\ Len(output) = 1
          /\ SameValue(output[1], IntV(1))
          /\ SameValue(structs[1]["x"], IntV(1))
          /\ "z" \notin DOMAIN frames[1]

(* C14 happens: an instruction inside a called function raised, with
   forms that print, set a field and store a static still to come, and
   run() returned. *)
C14_Witness ==
    /\ Returned
    /\ scenario.name = "error"
    /\ scenario.kind = "underflow"
    /\ vm_status = "IndexError"
    /\ call_stack # <<>>
    /\ Len(output) = 1
    /\ \E i \in 1..CodeLen : EffectiveCode[i].op = "SET_FIELD"

(* C15: when HALT has executed the loop is left at once: ip is the code
   length, HALT is the last instruction executed and run() returns next;
   what it returns is the top of the operand stack, or nil when the stack
   is empty.  For the given bytecode with instructions behind HALT: none
   of them ran (nothing was printed, the stack is as HALT found it). *)
C15_HaltStopsAndReturnsTop ==
    /\ vm_status = "halted" =>
          /\ ip = CodeLen
          /\ last_instr.op = "HALT"
          /\ phase = "running" => ENABLED RunReturns
          /\ phase \in {"done", "exited"} =>
                IF operand_stack = <<>> THEN SameValue(result, NilV)
                ELSE SameValue(result, Top)
    /\ (scenario.name = "bytecode" /\ phase \in {"done", "exited"}
        /\ scenario.kind \in {"halt_midway", "halt_empty", "halt_in_call"}) =>
          /\ vm_status = "halted"
          /\ output = <<>>
          /\ CASE scenario.kind = "halt_midway" -> Depth = 1 /\ SameValue(result, IntV(1))
               [] scenario.kind = "halt_empty" -> Depth = 0 /\ SameValue(result, NilV)
               [] OTHER -> Depth = 1 /\ SameValue(result, IntV(5))

(* C15 happens: HALT executed inside a called function, with a RETURN and
   the caller's instructions still to come, and run() returned. *)
C15_Witness ==
    /\ Returned
    /\ scenario.name = "bytecode"
    /\ scenario.kind = "halt_in_call"
    /\ vm_status = "halted"
    /\ call_stack # <<>>
    /\ SameValue(result, IntV(5))

(* What the claim on repeated use forms compares of two generators. *)
SameGlobalState(g, h) ==
    /\ g.error = h.error
    /\ DOMAIN g.global_env = DOMAIN h.global_env
    /\ \A x \in DOMAIN g.global_env : g.global_env[x] = h.global_env[x]
    /\ g.struct_definitions = h.struct_definitions
    /\ g.discovered_dependencies = h.discovered_dependencies
    /\ g.bytecode = h.bytecode

(* C16: processing a use form of a module once more in the generator
   that has processed it leaves global_env, struct_definitions, the
   discovered dependencies and the bytecode as they are; and the program
   with the use form written twice generates what the program with the
   form written once generates. *)
C16_UseTwiceSameAsOnce ==
    \A c \in DOMAIN compile_calls :
       LET module_name == compile_calls[c].module_name
           g == compile_calls[c].codegen
       IN  /\ \A f \in DOMAIN Files[module_name] :
                 IsUseNode(Files[module_name][f]) =>
                    SameGlobalState(GenerateUseNode(Files[module_name][f], g), g)
           /\ (scenario.name = "use_twice" /\ scenario.kind = "repeated"
               /\ module_name = MainModule) =>
                 SameGlobalState(g, GenerateProgram(UseTwiceMain("once"), MainModule,
                                                    NewCodeGenerator({})))

(* C16 happens: the generator of main.ns has processed the same use form
   twice, has the imported names, and main.ns defines x again. *)
C16_Witness ==
    /\ scenario.name = "use_twice"
    /\ compile_calls # <<>>
    /\ compile_calls[1].module_name = MainModule
    /\ LET g == compile_calls[1].codegen IN
       /\ g.error = "none"
       /\ {"x", "S"} \subseteq DOMAIN g.global_env
       /\ "S" \in DOMAIN g.struct_definitions
       /\ g.discovered_dependencies = {<<"m">>, <<"k">>}
       /\ scenario.kind = "repeated"

(* C17: a quoted symbol is no string: is_string of it yields false, =
   between it and a string yields false in either order, also when the
   characters are the same, and = between two quoted symbols yields true
   exactly when the names are equal. *)
C17_QuotedSymbolIsNoString ==
    (Returned /\ scenario.name = "quote") =>
        /\ vm_status = "halted"
        /\ SameValue(result,
                     BoolV(scenario.kind = "eq_symbol" /\ scenario.a = scenario.b))

(* C17 happens: = has compared a quoted symbol with the string of the same
   characters. *)
C17_Witness ==
    /\ Returned
    /\ scenario.name = "quote"
    /\ scenario.kind = "eq_string"
    /\ scenario.a = scenario.b
    /\ EffectiveCode[2].op = "PUSH"
    /\ EffectiveCode[2].args[1].t = "str"
    /\ EffectiveCode[1].args[1].t = "qsym"
    /\ EffectiveCode[1].args[1].v = EffectiveCode[2].args[1].v
    /\ last_instr.op = "HALT"
    /\ SameValue(result, BoolV(FALSE))

(* The lines the print of n arguments is to write: for each argument in
   turn the line written by its evaluation, then the line of its value. *)
ExpectedLines(n) ==
    IF n = 0 THEN << StrV("") >>
    ELSE [j \in 1..(2 * n) |->
             IF j % 2 = 1 THEN StrV("e" \o ToString((j + 1) \div 2)) ELSE IntV(j \div 2)]

(* C18: print of n >= 1 arguments writes one line per argument in argument
   order, each argument being evaluated just before its own line; print
   of no argument writes one line, the empty string; and the print
   expression leaves nil, and nothing else, on the operand stack. *)
C18_PrintWritesEachArgumentInTurn ==
    (Returned /\ scenario.name = "print") =>
        /\ vm_status = "halted"
        /\ Len(output) = Len(ExpectedLines(scenario.n))
        /\ \A j \in DOMAIN output : SameValue(output[j], ExpectedLines(scenario.n)[j])
        /\ Depth = 1
        /\ SameValue(result, NilV)

(* C18 happens: a print of MaxPrintArgs arguments has written its lines. *)
C18_Witness ==
    /\ Returned
    /\ scenario.name = "print"
    /\ scenario.n = MaxPrintArgs
    /\ vm_status = "halted"
    /\ Len(output) = 2 * MaxPrintArgs
    /\ SameValue(output[2 * MaxPrintArgs], IntV(MaxPrintArgs))

(* C19: in a general call of a closure of n parameters with n arguments
   the arguments are evaluated first to last and the callee expression
   after them (the lines are written in that order), and in the body the
   i-th parameter holds the value of the i-th argument (the body returns
   the list of its parameters). *)
C19_ArgumentsBindInOrder ==
    (Returned /\ scenario.name = "call") =>
        /\ vm_status = "halted"
        /\ Len(output) = scenario.n + 1
        /\ \A i \in 1..scenario.n : SameValue(output[i], IntV(i))
        /\ SameValue(output[scenario.n + 1], StrV("f"))
        /\ SameValue(result, ListV([i \in 1..scenario.n |-> IntV(10 * i)]))

(* C19 happens: a call with MaxParams arguments has returned the list of
   its parameters. *)
C19_Witness ==
    /\ Returned
    /\ scenario.name = "call"
    /\ scenario.n = MaxParams
    /\ vm_status = "halted"
    /\ result.t = "list"
    /\ Len(result.v) = MaxParams
    /\ \E i \in DOMAIN frames : DOMAIN frames[i] = {ParamName(j) : j \in 1..MaxParams}

(* C20: NOT pushes true exactly when its operand is the boolean false or
   nil and false for every other value, 0, the empty string and the empty
   list included: (not V) yields true for false and nil only. *)
C20_NotIsTrueOnFalseOrNilOnly ==
    (Returned /\ scenario.name = "not") =>
        /\ vm_status = "halted"
        /\ SameValue(result, BoolV(IsFalseOrNil(TestValues[scenario.v].value)))

(* The history of generators holds no module twice among the generators
   the linker constructed, and none twice among the nested generators the
   use forms constructed. *)
EachGeneratorOnce ==
    \A i, j \in DOMAIN generators_created :
       (i # j /\ generators_created[i].nested = generators_created[j].nested)
           => generators_created[i].module_name # generators_created[j].module_name

(* compile_all_modules_recursively has returned to
   compile_program_with_dependencies, or its error has left it. *)
CompilationOver == phase \notin {"start", "compiling", "raising"}

(* The call for the main module has returned without an error. *)
CompilationReturned == phase \in {"linking", "linked"}

(* C21: compile_program_with_dependencies terminates on every set of
   module files, import cycles and self-imports included: the compilation
   is over eventually; the linker constructs a generator for a module at
   most once and the use forms a nested generator for a module at most
   once; the in-progress stack is empty when the call has returned. *)
C21_CompilationTerminates ==
    /\ [](EachGeneratorOnce
          /\ (CompilationReturned =>
                 (compilation_in_progress_stack = <<>> /\ compile_calls = <<>>)))
    /\ <>CompilationOver

(* C21 happens: main.ns imports itself and c1.ns, c1.ns and c2.ns import
   each other; all three were compiled, a nested generator was made for
   main.ns, and the call has returned. *)
C21_Witness ==
    /\ phase = "linking"
    /\ scenario.name = "cycle"
    /\ Main \in scenario.uses[Main]
    /\ <<"c1">> \in scenario.uses[Main]
    /\ <<"c2">> \in scenario.uses[<<"c1">>]
    /\ <<"c1">> \in scenario.uses[<<"c2">>]
    /\ Len(ordered_modules_for_linking) = 3
    /\ \E i \in DOMAIN generators_created :
          generators_created[i] = [module_name |-> Main, nested |-> TRUE]

(* The VirtualMachine object has been constructed. *)
VMConstructed == vm_status # "idle"

(* A chain of frames starts at the global frame, the first frame object the
   VM made, and holds it nowhere else. *)
StartsAtGlobalFrame(chain) ==
    /\ chain # <<>>
    /\ chain[1] = 1
    /\ \A i \in 2..Len(chain) : chain[i] # 1

(* C22: in every state of the VM the environment chain is not empty and
   its outermost frame is the one global frame made by the constructor,
   whatever MAKE_CLOSURE, CALL and RETURN were executed; the chains saved
   on the call stack and captured by the closures on the operand stack, from
   which CALL and RETURN make the next chain, start there as well. *)
C22_ChainStartsAtGlobalFrame ==
    VMConstructed =>
        /\ StartsAtGlobalFrame(env_chain)
        /\ "global" \in DOMAIN frames[1]
        /\ \A i \in DOMAIN call_stack : StartsAtGlobalFrame(call_stack[i].env_chain)
        /\ \A i \in DOMAIN operand_stack :
              operand_stack[i].t = "closure"
                  => StartsAtGlobalFrame(operand_stack[i].defining_env)

(* C22 happens: a RETURN has just left a call made two calls deep, and the
   chain it restored starts at the global frame. *)
C22_Witness ==
    /\ phase = "running"
    /\ last_instr.op = "RETURN"
    /\ Len(call_stack) >= 2
    /\ Len(env_chain) >= 2
    /\ env_chain[1] = 1

RECURSIVE QuotedValue(_)
(* The value quoted data stands for: a symbol is a quoted symbol, an atom
   itself, a list the list of what its items stand for, and 'x the list of
   the quoted symbol quote and what x stands for. *)
QuotedValue(item_data) ==
    CASE item_data.k = "Symbol" -> QuotedSymbol(item_data.name)
      [] item_data.k = "atom" -> item_data.value
      [] item_data.k = "datalist" ->
            ListV([i \in DOMAIN item_data.items |-> QuotedValue(item_data.items[i])])
      [] OTHER -> ListV(<< QuotedSymbol("quote"), QuotedValue(item_data.expression) >>)

(* C23: quoting evaluates nothing: (quote D) yields what D stands for, a
   list of the same length and order with every symbol a quoted symbol and
   every atom itself, nested lists likewise, a nested 'x the list of the
   quoted symbol quote and the quoted x; and the code of (quote D) holds no
   LOAD and no CALL. *)
C23_QuoteEvaluatesNothing ==
    scenario.name = "quoted" =>
        /\ \A i \in DOMAIN final_bytecode : final_bytecode[i].op \notin {"LOAD", "CALL"}
        /\ phase \notin {"compile_error", "load_error"}
        /\ Returned =>
              /\ vm_status = "halted"
              /\ SameValue(result, QuotedValue(QuotedData(scenario.kind, scenario.items)))

(* C23 happens: a quoted list of a list that reads like a call and a nested
   quote of a list has been evaluated. *)
C23_Witness ==
    /\ Returned
    /\ scenario.name = "quoted"
    /\ scenario.kind = "list"
    /\ scenario.items = <<7, 9>>
    /\ Len(result.v) = 2
    /\ Len(final_bytecode) > 1

(* No label marker occurs twice in a bytecode list. *)
LabelsDistinct(bytecode) ==
    \A i, j \in DOMAIN bytecode :
       (i # j /\ IsLabelMarker(bytecode[i]) /\ IsLabelMarker(bytecode[j]))
           => bytecode[i].args[1] # bytecode[j].args[1]

(* C24: within the bytecode generated for one module all label markers are
   pairwise distinct, for every program, whatever the function names (names
   ending in digits included) and the counter values. *)
C24_LabelsDistinctInModule ==
    \A m \in DOMAIN module_own_bytecode_cache :
       LabelsDistinct(module_own_bytecode_cache[m])

(* The instructions of the loaded image before its i-th item, and the first
   instruction after it (0 when none follows). *)
InstructionsBefore(i) == Cardinality({j \in 1..(i - 1) : ~IsLabelMarker(code[j])})

NextInstructionAfter(i) ==
    LET later == {k \in (i + 1)..Len(code) : ~IsLabelMarker(code[k])}
    IN  IF later = {} THEN 0 ELSE CHOOSE k \in later : \A l \in later : k <= l

(* The index a label stands for, read off the image: the number of
   instructions before its marker. *)
MarkerTarget(label) ==
    InstructionsBefore(CHOOSE i \in DOMAIN code :
                          IsLabelMarker(code[i]) /\ code[i].args[1] = label)

(* The label map sends every marker of the image to the index, in the code
   without markers, of the first instruction after the marker, or to the
   length of that code when none follows. *)
LabelsPointAfterMarkers ==
    \A i \in DOMAIN code :
       IsLabelMarker(code[i]) =>
          /\ code[i].args[1] \in DOMAIN labels
          /\ labels[code[i].args[1]] = InstructionsBefore(i)
          /\ IF NextInstructionAfter(i) = 0
             THEN labels[code[i].args[1]] = CodeLen
             ELSE /\ labels[code[i].args[1]] < CodeLen
                  /\ EffectiveCode[labels[code[i].args[1]] + 1] = code[NextInstructionAfter(i)]

(* A step of the dispatch loop that executes op and raises nothing. *)
Executes(op) ==
    /\ phase = "running" /\ vm_status = "running"
    /\ ip >= 0 /\ ip < CodeLen
    /\ Fetch.op = op
    /\ phase' = "running" /\ vm_status' = "running"

(* JUMP, a taken JUMP_IF_FALSE and CALL continue at the instruction their
   label stands for. *)
JumpsLandAfterMarkers ==
    /\ Executes("JUMP") => ip' = MarkerTarget(Fetch.args[1])
    /\ (Executes("JUMP_IF_FALSE") /\ ~Truthy(Top)) => ip' = MarkerTarget(Fetch.args[1])
    /\ Executes("CALL") => ip' = MarkerTarget(Top.code_label)

(* C25: for every label marker of an image the label map sends the label to
   the index, in the instruction sequence without markers, of the first
   instruction after the marker, or to the length of that sequence when none
   follows; JUMP, a taken JUMP_IF_FALSE and CALL continue at exactly that
   instruction. *)
C25_LabelsIndexCompactedCode ==
    /\ [](VMConstructed => LabelsPointAfterMarkers)
    /\ [][JumpsLandAfterMarkers]_vars

(* C25 happens: in an image whose last item is a marker a CALL and a taken
   JUMP_IF_FALSE have landed after their markers, and a JUMP to the last
   marker has just left the ip at the length of the code. *)
C25_Witness ==
    /\ phase = "running"
    /\ vm_status = "running"
    /\ scenario.name = "bytecode"
    /\ scenario.kind = "label_at_end"
    /\ last_instr.op = "JUMP"
    /\ labels["f"] = 4 /\ labels["r"] = 7
    /\ ip = CodeLen

(* The RETURN about to be executed leaves a call. *)
ReturnsFromCall == Executes("RETURN") /\ call_stack # <<>>

(* After a RETURN the machine is where the matching CALL was made: at the
   instruction after the CALL, in the chain and at the call depth of the
   state the CALL was executed in. *)
ReturnRestoresCaller ==
    ReturnsFromCall =>
        /\ ip' = Last(call_frames).at + 1
        /\ env_chain' = Last(call_frames).env_chain
        /\ Len(call_stack') = Last(call_frames).depth

(* The active calls are the entries of the call stack, one for one, the
   i-th made at depth i - 1. *)
CallsMatchCallStack ==
    /\ Len(call_frames) = Len(call_stack)
    /\ \A i \in DOMAIN call_frames : call_frames[i].depth = i - 1

(* C26: for every CALL that returns, immediately after the matching RETURN
   the instruction pointer is at the instruction following the CALL, the
   environment chain is the sequence of frames it was immediately before the
   CALL, and the call stack is as deep as before the CALL, at every depth
   of nesting. *)
C26_ReturnRestoresCaller ==
    /\ []CallsMatchCallStack
    /\ [][ReturnRestoresCaller]_vars

(* C26 happens: a RETURN has just left a call made two calls deep from a
   chain longer than the global frame. *)
C26_Witness ==
    /\ phase = "running"
    /\ vm_status = "running"
    /\ last_instr.op = "RETURN"
    /\ Len(call_stack) = 2
    /\ Len(env_chain) = 2
    /\ ip > 0
    /\ EffectiveCode[ip].op = "CALL"

(* Two frames hold the same bindings. *)
SameFrame(a, b) ==
    /\ DOMAIN a = DOMAIN b
    /\ \A name \in DOMAIN a : SameValue(a[name], b[name])

(* A step taken while a call is active leaves every frame but the one the
   innermost active CALL created as it was. *)
OnlyInnermostCallFrameWritten ==
    (phase = "running" /\ call_frames # <<>>) =>
        \A f \in DOMAIN frames :
           f # Last(call_frames).frame => SameFrame(frames'[f], frames[f])

(* While a call is active the innermost frame of the chain, the one STORE
   writes, is the frame the innermost active CALL created, a frame made by
   that CALL and by no other active one. *)
InnermostFrameIsOfInnermostCall ==
    (phase = "running" /\ vm_status = "running" /\ call_frames # <<>>) =>
        /\ Last(env_chain) = Last(call_frames).frame
        /\ \A i, j \in DOMAIN call_frames :
              i # j => call_frames[i].frame # call_frames[j].frame
        /\ \A i \in DOMAIN call_frames :
              call_frames[i].frame \notin Range(call_frames[i].env_chain)

(* C27: a STORE executed while a call is active writes only into the frame
   created by the innermost active CALL: no frame that existed before that
   CALL, the global frame, the callers' frames and the captured frames,
   gains or changes a binding until the call returns, so that each
   invocation, a recursive one included, has parameter bindings of its
   own. *)
C27_StoreWritesInnermostCallFrame ==
    /\ []InnermostFrameIsOfInnermostCall
    /\ [][OnlyInnermostCallFrameWritten]_vars

(* C27 happens: a STORE has just bound the parameter of a recursive call
   whose caller, an invocation of the same function, holds another value
   under the same name. *)
C27_Witness ==
    /\ phase = "running"
    /\ last_instr.op = "STORE"
    /\ Len(call_frames) >= 2
    /\ LET inner == frames[call_frames[Len(call_frames)].frame]
           outer == frames[call_frames[Len(call_frames) - 1].frame]
           name == last_instr.args[1]
       IN  /\ name \in DOMAIN inner
           /\ name \in DOMAIN outer
           /\ ~SameValue(inner[name], outer[name])

(* The value of (f N) in the programs of ForwardProgram. *)
ForwardValue(kind, n) ==
    IF kind = "call" THEN IntV(5) ELSE IntV(IF n % 2 = 0 THEN 1 ELSE 2)

(* The label of the code the image makes the closure stored under a name of. *)
ClosureLabelOf(name) ==
    LET i == CHOOSE i \in 1..(Len(code) - 1) :
                 /\ code[i].op = "MAKE_CLOSURE"
                 /\ code[i + 1] = Instr("STORE", <<name>>)
    IN  code[i].args[1]

(* LOAD of g inside a call pushes the closure g is bound to in the global
   frame, the closure of g's own code. *)
LoadInBodyResolvesToLaterClosure ==
    (scenario.name = "forward" /\ Executes("LOAD") /\ call_frames # <<>>
         /\ Fetch.args[1] = "g") =>
        /\ "g" \in DOMAIN frames[1]
        /\ operand_stack'[Len(operand_stack')] = frames[1]["g"]
        /\ frames[1]["g"].t = "closure"
        /\ frames[1]["g"].code_label = ClosureLabelOf("g")
        /\ ClosureLabelOf("g") # ClosureLabelOf("f")

(* C28: a top-level function f defined before a top-level function g can
   call g: when f's body runs after g's definition was executed, LOAD g
   inside f resolves to g's closure, the chain f captured sharing the global
   frame, and the call returns g's value. *)
C28_EarlierFunctionCallsLater ==
    /\ [][LoadInBodyResolvesToLaterClosure]_vars
    /\ []((Returned /\ scenario.name = "forward") =>
             (vm_status = "halted"
              /\ SameValue(result, ForwardValue(scenario.kind, scenario.n))))

(* C28 happens: f, whose closure was made while the global frame had no g,
   has loaded g's closure in its body. *)
C28_Witness ==
    /\ phase = "running"
    /\ scenario.name = "forward"
    /\ last_instr.op = "LOAD"
    /\ last_instr.args[1] = "g"
    /\ Len(call_frames) = 1
    /\ operand_stack # <<>>
    /\ operand_stack[Len(operand_stack)].t = "closure"
    /\ frames[1]["f"].defining_env = <<1>>

(* Every field list a generator assigned to a struct name is the list it
   assigned to the name first. *)
StructEntriesNeverChange(g) ==
    \A name \in DOMAIN g.struct_recorded :
       \A i \in DOMAIN g.struct_recorded[name] :
          g.struct_recorded[name][i] = g.struct_recorded[name][1]

(* C29: within one code generator, once struct_definitions holds a field
   list for a struct name the entry never changes to another list: recording
   a differing list for the name, by a struct form or by importing a struct
   of that name from another module, raises a code-generation error. *)
C29_StructEntryNeverChanges ==
    /\ \A c \in DOMAIN compile_calls : StructEntriesNeverChange(compile_calls[c].codegen)
    /\ (scenario.name = "struct_clash"
        /\ scenario.kind \in {"local_differs", "import_local", "import_differs"})
           => phase \in {"start", "raising", "compile_error", "exited"}

(* The image holds HALT once, as its last instruction. *)
OneHaltAtEnd(bytecode) ==
    /\ bytecode # <<>>
    /\ Last(bytecode) = HALT
    /\ \A i \in 1..(Len(bytecode) - 1) : bytecode[i] # HALT

(* What the top-level code of the modules of a cycle program writes when
   each runs once, in the order of ordered_modules_for_linking: the name of
   each module. *)
LinesOfModulesInOrder ==
    [i \in DOMAIN ordered_modules_for_linking |-> StrV(ordered_modules_for_linking[i][1])]

(* C30: the linked image holds exactly one HALT and it is the last
   instruction; in a run without a runtime error the top-level code of
   every module of ordered_modules_for_linking is executed exactly once, in
   that order, and only then the execution halts. *)
C30_OneHaltAfterEveryModule ==
    /\ Linked => OneHaltAtEnd(final_bytecode)
    /\ (Linked /\ Returned) => (vm_status = "halted" \/ IsErrorStatus(vm_status))
    /\ (Linked /\ scenario.name = "cycle" /\ phase \in {"running", "done"}) =>
          /\ ~IsErrorStatus(vm_status)
          /\ Len(output) <= Len(LinesOfModulesInOrder)
          /\ output = SubSeq(LinesOfModulesInOrder, 1, Len(output))
          /\ vm_status = "halted" =>
                (output = LinesOfModulesInOrder /\ last_instr = HALT /\ ip = CodeLen)

(* C30 happens: the image of three modules that use each other in a cycle
   has run to its HALT, each module's line written once. *)
C30_Witness ==
    /\ Returned
    /\ scenario.name = "cycle"
    /\ vm_status = "halted"
    /\ Len(ordered_modules_for_linking) = 3
    /\ Len(output) = 3
    /\ <<"c1">> \in scenario.uses[<<"c2">>]
    /\ <<"c2">> \in scenario.uses[<<"c1">>]

(* The names a module's file defines with static forms. *)
StaticNamesOf(module_name) ==
    {Files[module_name][i].name :
        i \in {j \in DOMAIN Files[module_name] : Files[module_name][j].k = "Static"}}

(* How many times the image stores under a name. *)
StoresOf(bytecode, name) ==
    Cardinality({i \in DOMAIN bytecode :
                    bytecode[i].op = "STORE" /\ bytecode[i].args[1] = name})

RECURSIVE OwnBytecodeInOrder(_)
(* The bytecode the linker's generators made of the modules, in order. *)
OwnBytecodeInOrder(ordered) ==
    IF ordered = <<>> THEN <<>>
    ELSE module_own_bytecode_cache[Head(ordered)] \o OwnBytecodeInOrder(Tail(ordered))

(* compile_program_with_dependencies has just returned the linked image;
   no step after this one changes the linker's variables or the image. *)
ImageReturned ==
    /\ scenario.name # "bytecode"
    /\ phase = "linked"

(* C31: every module reachable from the main module through use forms
   occurs exactly once in ordered_modules_for_linking and its bytecode
   exactly once in the linked image, which holds nothing else but the final
   HALT: the bytecode of the nested generators run for the summaries is not
   in it.  In the graph families, where each module stores under a name of
   its own, the image stores once under the name of each reachable module
   and never under the name of another. *)
C31_EachReachableModuleOnce ==
    ImageReturned =>
        LET reachable == ReachableFrom({MainModule}) IN
        /\ reachable \subseteq Range(ordered_modules_for_linking)
        /\ \A i, j \in DOMAIN ordered_modules_for_linking :
              i # j => ordered_modules_for_linking[i] # ordered_modules_for_linking[j]
        /\ Range(ordered_modules_for_linking) \subseteq DOMAIN module_own_bytecode_cache
        /\ final_bytecode = Append(OwnBytecodeInOrder(ordered_modules_for_linking), HALT)
        /\ scenario.name \in {"cycle", "dag"} =>
              \A m \in DOMAIN Files : \A name \in StaticNamesOf(m) :
                 StoresOf(final_bytecode, name) = IF m \in reachable THEN 1 ELSE 0

(* C31 happens: main.ns uses c1.ns and c2.ns, which use each other and
   main.ns, so that nested generators were run for all three, and the three
   are linked. *)
C31_Witness ==
    /\ phase = "linked"
    /\ scenario.name = "cycle"
    /\ scenario.uses[Main] = {<<"c1">>}
    /\ scenario.uses[<<"c1">>] = {<<"c2">>}
    /\ scenario.uses[<<"c2">>] = {<<"c1">>, Main}
    /\ Len(ordered_modules_for_linking) = 3
    /\ Cardinality({i \in DOMAIN generators_created : generators_created[i].nested}) = 3

(* The values on the operand stack when the loop of LoopProgram begins. *)
BelowTheLoop == << IntV(7), StrV("s") >>

SameStack(a, b) ==
    /\ Len(a) = Len(b)
    /\ \A i \in DOMAIN a : SameValue(a[i], b[i])

(* The loop of LoopProgram is about to evaluate its condition, and has
   just pushed its value. *)
AtLoopStart ==
    /\ phase = "running" /\ vm_status = "running"
    /\ call_stack = <<>>
    /\ ip = labels[LabelText("main", "while_start", 1)]

AfterLoop ==
    /\ phase = "running" /\ vm_status = "running"
    /\ call_stack = <<>>
    /\ ip = labels[LabelText("main", "while_end", 2)] + 1

(* C32: a while whose condition becomes falsy after k passes, k >= 0,
   leaves the operand stack exactly one value deeper than it was before the
   loop, nil on top: each pass pops the value of every body expression and
   the values below are untouched. *)
C32_WhileLeavesNilOnTop ==
    scenario.name = "loop" =>
        /\ ~IsErrorStatus(vm_status)
        /\ phase \notin {"compile_error", "load_error"}
        /\ AtLoopStart => SameStack(operand_stack, BelowTheLoop)
        /\ AfterLoop => SameStack(operand_stack, Append(BelowTheLoop, NilV))
        /\ Returned =>
              SameValue(result, ListV(Append(BelowTheLoop, NilV)))
              /\ Len(output) = (IF scenario.body = 2 THEN scenario.k ELSE 0)

(* C32 happens: a loop whose body ends with an if has run MaxLoops passes
   and pushed its nil on the two values below it. *)
C32_Witness ==
    /\ scenario.name = "loop"
    /\ scenario.k = MaxLoops
    /\ scenario.body = 3
    /\ AfterLoop
    /\ Len(operand_stack) = 3
    /\ SameValue(structs[1]["v"], IntV(0))

(* The expression of ExpressionProgram is about to be evaluated (the
   PUSH "s" before it has just run), and has just been evaluated (the
   MAKE_LIST 3 after it is next). *)
BeforeExpression ==
    /\ phase = "running" /\ vm_status = "running"
    /\ call_stack = <<>>
    /\ ip >= 1 /\ ip <= Len(EffectiveCode)
    /\ EffectiveCode[ip].op = "PUSH"
    /\ EffectiveCode[ip].args[1].t = "str"
    /\ EffectiveCode[ip].args[1].v = "s"

AfterExpression ==
    /\ phase = "running" /\ vm_status = "running"
    /\ call_stack = <<>>
    /\ ip < Len(EffectiveCode)
    /\ Fetch.op = "MAKE_LIST"
    /\ Fetch.args[1] = 3

(* v is the value the expression case e is to leave. *)
IsValueOfCase(v, e) ==
    LET expected == ExpressionCases[e].value IN
    /\ v.t = expected.t
    /\ expected.t # "closure" => SameValue(v, expected)

(* C33: the error-free execution of the code generated for an expression of
   any kind (literal, symbol, quote, primitive call, struct construction,
   general call with as many arguments as parameters, if, let, begin, get,
   set, lambda) leaves the operand stack as it was before with exactly one
   value pushed on top; both branches of an if leave exactly one value. *)
C33_ExpressionPushesOneValue ==
    scenario.name = "expression" =>
        /\ ~IsErrorStatus(vm_status)
        /\ phase \notin {"compile_error", "load_error"}
        /\ BeforeExpression => SameStack(operand_stack, BelowTheLoop)
        /\ AfterExpression =>
              /\ Len(operand_stack) = 3
              /\ SameStack(SubSeq(operand_stack, 1, 2), BelowTheLoop)
              /\ IsValueOfCase(operand_stack[3], scenario.e)
        /\ Returned =>
              /\ result.t = "list"
              /\ Len(result.v) = 3
              /\ SameStack(SubSeq(result.v, 1, 2), BelowTheLoop)
              /\ IsValueOfCase(result.v[3], scenario.e)

(* C33 happens: an if whose condition is false has taken its else branch,
   a print, and left the nil of that branch on the two values below. *)
C33_Witness ==
    /\ scenario.name = "expression"
    /\ scenario.e = 16
    /\ AfterExpression
    /\ Len(output) = 1
    /\ Len(operand_stack) = 3
    /\ operand_stack[3].t = "nil"

(* The values of the fields of the instance of FieldsProgram as made, and
   after its field i was set. *)
FieldsAsMade(n) == ListV([j \in 1..n |-> IntV(10 * j)])

FieldsAfterSet(n, i) == ListV([j \in 1..n |-> IF j = i THEN IntV(99) ELSE IntV(10 * j)])

(* C34: for a struct type with the fields f1..fn, after MAKE_STRUCT over the
   values v1..vn GET_FIELD fi yields vi for every i; after SET_FIELD fi of
   w, GET_FIELD fi yields w and every other field is as before; SET_FIELD
   leaves the same, mutated, instance on the stack. *)
C34_StructFieldsRoundTrip ==
    scenario.name = "fields" =>
        /\ ~IsErrorStatus(vm_status)
        /\ phase \notin {"compile_error", "load_error"}
        /\ Len(structs) <= 1
        /\ (phase \in {"running", "done"} /\ frames # <<>>) =>
              /\ "before" \in DOMAIN frames[1] =>
                    SameValue(frames[1]["before"], FieldsAsMade(scenario.n))
              /\ "q" \in DOMAIN frames[1] =>
                    /\ frames[1]["q"].t = "struct"
                    /\ frames[1]["q"].v = frames[1]["p"].v
                    /\ DOMAIN structs[1] = {"__type__"} \cup Range(FieldsOf(scenario.n))
        /\ Returned =>
              SameValue(result, ListV(<< FieldsAsMade(scenario.n),
                                         FieldsAfterSet(scenario.n, scenario.i),
                                         FieldsAfterSet(scenario.n, scenario.i) >>))

(* C34 happens: the middle field of an instance of three fields was set and
   every field read back. *)
C34_Witness ==
    /\ Returned
    /\ scenario.name = "fields"
    /\ scenario.n = 3 /\ scenario.i = 2
    /\ SameValue(result.v[1], ListV(<<IntV(10), IntV(20), IntV(30)>>))
    /\ SameValue(result.v[3], ListV(<<IntV(10), IntV(99), IntV(30)>>))
    /\ SameValue(structs[1]["b"], IntV(99))

(* The virtual machine is constructed and no instruction has executed. *)
BeforeFirstInstruction ==
    /\ phase = "running" /\ vm_status = "running"
    /\ ip = 0
    /\ last_instr.op = NoInstr.op

(* C35: before the first instruction executes the environment chain is
   exactly one frame, and that frame has no bindings: a LOAD of any name as
   the first instruction aborts with the undefined-name error. *)
C35_FirstLoadIsUndefined ==
    /\ BeforeFirstInstruction =>
          /\ Len(env_chain) = 1
          /\ DOMAIN frames[env_chain[1]] = {}
    /\ (scenario.name = "first_load" /\ phase \in {"running", "done"}
          /\ last_instr.op = "LOAD")
       => vm_status = "NameError"

(* The type predicate that is to hold of a value of the variant: its own,
   and is_list of a list and of nil. *)
HoldsOfVariant(predicate, variant) ==
    CASE predicate = "is_boolean" -> variant = "boolean"
      [] predicate = "is_number" -> variant \in {"integer", "float"}
      [] predicate = "is_string" -> variant = "string"
      [] predicate = "is_struct" -> variant = "struct instance"
      [] predicate = "is_function" -> variant = "closure"
      [] predicate = "is_list" -> variant \in {"list", "nil"}

(* C36: of a runtime value of each variant, among is_boolean, is_number,
   is_string, is_struct and is_function exactly the predicate of the
   value's own variant holds, and is_list holds exactly of lists, empty or
   not, and of nil. *)
C36_TypePredicatesAreExact ==
    (scenario.name = "variant" /\ Returned) =>
        /\ vm_status = "halted"
        /\ SameValue(result,
               ListV([j \in DOMAIN VariantPredicates |->
                         BoolV(HoldsOfVariant(VariantPredicates[j],
                                              VariantCases[scenario.c].variant))]))

(* C37: a CALL n of a closure consumes exactly the callee and its n
   argument values; the values that were below the arguments are neither
   read nor removed by the parameter prologue of the callee, whether or not
   the number of arguments is the number of parameters. *)
C37_CallConsumesItsArgumentsOnly ==
    (scenario.name = "arity" /\ phase = "running" /\ vm_status = "running") =>
        /\ call_stack # <<>> =>
              /\ Len(operand_stack) >= 2
              /\ SameStack(SubSeq(operand_stack, 1, 2), BelowTheLoop)
              /\ \A x \in DOMAIN frames[Last(env_chain)] :
                    frames[Last(env_chain)][x].t = "int"
        /\ (call_stack = <<>> /\ last_instr.op = "RETURN") =>
              SameStack(operand_stack, Append(BelowTheLoop, IntV(0)))

(* C38: an instance that MAKE_STRUCT made of type T with the field set F
   has the type tag T and exactly the fields F in every later state: no
   GET_FIELD and no SET_FIELD, with any field name, changes the tag or adds
   or removes a field, and a GET_FIELD or SET_FIELD with a name outside F
   aborts. *)
C38_InstanceKeepsTagAndFields ==
    (scenario.name = "tag" /\ structs # <<>>) =>
        /\ DOMAIN structs[1] = {"__type__", "a"}
        /\ structs[1]["__type__"].t = "str"
        /\ structs[1]["__type__"].v = "P"
        /\ (last_instr.op \in {"GET_FIELD", "SET_FIELD"} /\ scenario.field # "a")
              => vm_status = "AttributeError"

(* A step in which GET_FIELD, SET_FIELD, CONS, FIRST, REST or CALL found an
   operand of the wrong kind and raised. *)
AbortsOnOperand ==
    /\ phase = "running" /\ vm_status = "running"
    /\ ip >= 0 /\ ip < CodeLen
    /\ Fetch.op \in {"GET_FIELD", "SET_FIELD", "CONS", "FIRST", "REST", "CALL"}
    /\ vm_status' \in {"TypeError", "AttributeError"}

(* An aborting instruction leaves the operand stack, the struct instances,
   the frames and the chains as it found them. *)
AbortLeavesStateAlone ==
    AbortsOnOperand =>
        /\ SameStack(operand_stack', operand_stack)
        /\ UNCHANGED <<structs, frames, env_chain, call_stack>>

(* The instruction of AbortProgram has aborted and left the stack it found:
   the two values below and its operands, in their order. *)
AbortedAsFound ==
    (scenario.name = "abort" /\ phase \in {"running", "done"} /\ vm_status # "running") =>
        /\ vm_status \in {"TypeError", "AttributeError"}
        /\ last_instr.op = AbortCases[scenario.c].op
        /\ SameStack(operand_stack, BelowTheLoop \o AbortCases[scenario.c].operands)
        /\ Len(structs) = 1
        /\ DOMAIN structs[1] = {"__type__", "a"}
        /\ SameValue(structs[1]["a"], IntV(1))
        /\ Len(frames) = 1
        /\ DOMAIN frames[1] = {"global", "p", "l"}
        /\ SameValue(frames[1]["l"], ListV(<<IntV(1), IntV(2)>>))

(* C39: when GET_FIELD, SET_FIELD, CONS, FIRST, REST or CALL aborts because
   an operand is of the wrong kind (not a struct, a field that is absent,
   not a list, nil or the empty list for FIRST and REST, a callee that is
   not a closure), the operand stack at the abort is the operand stack
   before the instruction, in the same order, and no struct, list or frame
   was modified. *)
C39_AbortRestoresOperands ==
    /\ []AbortedAsFound
    /\ [][AbortLeavesStateAlone]_vars

(* C39 happens: a CONS onto a struct instance has aborted with its two
   operands, the instance below and the item above, back on the stack. *)
C39_Witness ==
    /\ scenario.name = "abort"
    /\ scenario.c = 7
    /\ vm_status = "TypeError"
    /\ last_instr.op = "CONS"
    /\ Len(operand_stack) = 4
    /\ operand_stack[3].t = "struct"
    /\ operand_stack[4].t = "list"

(* A cycle program in which only main.ns has use forms: the set of the
   direct dependencies of main holds the modules it names, and the other
   modules have none. *)
OnlyMainUses ==
    /\ scenario.name = "cycle"
    /\ scenario.uses[<<"c1">>] = {}
    /\ scenario.uses[<<"c2">>] = {}

(* ordered_modules_for_linking of the linking run that takes the
   dependencies of main in the order of their names. *)
LinkOrderByName ==
    SelectSeq(CycleModules, LAMBDA m : m # Main /\ m \in scenario.uses[Main]) \o <<Main>>

(* C40: two linking runs over the same module files give the same
   ordered_modules_for_linking and the same linked image, hence the same
   output, in whatever order the set of the direct dependencies of each
   module is iterated: every run gives what the run that takes them in the
   order of their names gives. *)
C40_LinkingIsOneOutcome ==
    (Linked /\ OnlyMainUses) =>
        /\ ordered_modules_for_linking = LinkOrderByName
        /\ final_bytecode = Append(OwnBytecodeInOrder(LinkOrderByName), HALT)
        /\ Returned => Len(output) = Len(LinkOrderByName)
                       /\ \A i \in DOMAIN output : output[i].v = LinkOrderByName[i][1]

=========================================================================
